---------------------------- MODULE Spec2Model ----------------------------
(***************************************************************************)
(* Model of the KMZ/KML ingestion pipeline of circuithelper                *)
(* (src/circuithelper/utils.py), of the upload handler that stores its     *)
(* results (src/circuithelper/views.py, CircuitPathEditView.post), of the  *)
(* provider synchronisation (src/circuithelper/providers/base.py), of the  *)
(* provider registry and of the sync_provider command                      *)
(* (src/netbox_circuit_manager), of the Lumen provider                     *)
(* (src/circuithelper/providers/lumen.py) and of the views that show the   *)
(* map of a stored path.                                                   *)
(*                                                                         *)
(* Python values are modelled as follows.                                  *)
(*   Optional[T]   a sequence of at most one T: None is <<>>, v is <<v>>   *)
(*   tuple, list   a sequence                                              *)
(*   dict, object  a record; hasattr(o, "a") is "a" \in DOMAIN o           *)
(*   float         an integer in the unit named where it is used           *)
(*   an exception  the record Raised in place of the returned value        *)
(***************************************************************************)
EXTENDS Integers, Sequences, FiniteSets, TLC

VARIABLES
    call,       \* the pending call of the pipeline: [fn, arg]
    ret,        \* what the call returned: Pending, Return(v) or Raised
    instance,   \* the stored CircuitPath record
    request,    \* the last request CircuitPathEditView.post handled
    outcome,    \* what post did with it
    nPosts,     \* number of requests handled so far
    file_object,\* a file object handed to parse_kmz_file: [content, position]
    returns,    \* what each call on file_object found and returned: [at, result]
    pyproj,     \* whether `import pyproj` succeeds in this installation
    invocations,\* the invocations of parse_kml_data in progress: [kml_data, pc, todo, result]
    heap,       \* the list objects the invocations made: [features_list, coords_list]
    provider,   \* the carrier API a BaseProviderSync talks to, and how its calls end
    config,     \* the ProviderAPIConfig record of that provider: [last_sync, sync_status]
    sync_result,\* what sync_all returned: Pending, Return(stats) or Raised
    registry,   \* provider_registry._providers: the (key, value) pairs in insertion order
    ops,        \* the calls made on provider_registry so far: [op, key, class]
    answer,     \* how the last call on provider_registry ended
    table,      \* the ProviderAPIConfig rows, in the order a queryset yields them
    options,    \* the options of the sync_provider command: [provider, test]
    stdout,     \* the lines the command has written
    events,     \* the calls the command made on provider classes: [call, pk]
    handled,    \* how handle ended: Pending, Return(None) or Raised
    cost_rows,  \* the CircuitCost table: [circuit, nrc, mrc, currency, billing_account]
    cost_call,  \* the last call that synchronised costs, and what it returned
    ticket_rows,\* the CircuitTicket table: [ticket_number, circuit, status, priority]
    ticket_call,\* the last call of sync_circuit_tickets, and what it returned
    path_record,\* the CircuitPath row of the circuit a view shows, None without one
    context     \* the template context the view built: Pending or [view, map_html]

viewVars == <<instance, request, outcome, nPosts>>
fileVars == <<file_object, returns>>

threadVars == <<invocations, heap>>

syncVars == <<provider, config, sync_result>>

registryVars == <<registry, ops, answer>>

commandVars == <<table, options, stdout, events, handled>>

costVars == <<cost_rows, cost_call>>

ticketVars == <<ticket_rows, ticket_call>>

mapVars == <<path_record, context>>

\* the variables of the Lumen provider and of the map views
laterVars == <<costVars, ticketVars, mapVars>>

vars ==
    <<call, ret, viewVars, fileVars, pyproj, threadVars, syncVars, registryVars, commandVars,
      laterVars>>

\* the variables each specification leaves alone
OutsideParse ==
    <<viewVars, fileVars, pyproj, threadVars, syncVars, registryVars, commandVars,
      laterVars>>
OutsideUpload ==
    <<call, ret, fileVars, pyproj, threadVars, syncVars, registryVars, commandVars,
      laterVars>>
OutsideReread ==
    <<call, ret, viewVars, pyproj, threadVars, syncVars, registryVars, commandVars,
      laterVars>>
OutsideThreads ==
    <<call, ret, viewVars, fileVars, pyproj, syncVars, registryVars, commandVars,
      laterVars>>
OutsideSync ==
    <<call, ret, viewVars, fileVars, pyproj, threadVars, registryVars, commandVars,
      laterVars>>
OutsideRegistry ==
    <<call, ret, viewVars, fileVars, pyproj, threadVars, syncVars, commandVars,
      laterVars>>
OutsideCommand ==
    <<call, ret, viewVars, fileVars, pyproj, threadVars, syncVars, ops, answer, laterVars>>
OutsideCosts ==
    <<call, ret, viewVars, fileVars, pyproj, threadVars, syncVars, registryVars, commandVars,
      ticketVars, mapVars>>
OutsideTickets ==
    <<call, ret, viewVars, fileVars, pyproj, threadVars, syncVars, registryVars, commandVars,
      costVars, mapVars>>
OutsideMap ==
    <<call, ret, viewVars, fileVars, pyproj, threadVars, syncVars, registryVars, commandVars,
      costVars, ticketVars>>

(***************************************************************************)
(* Python values                                                           *)
(***************************************************************************)
None == <<>>
Some(v) == <<v>>

Pending == [state |-> "pending"]
Raised == [state |-> "raised"]
Return(v) == [state |-> "returned", value |-> v]

Range(s) == {s[i] : i \in DOMAIN s}

RECURSIVE Flatten(_)
Flatten(ss) == IF ss = <<>> THEN <<>> ELSE Head(ss) \o Flatten(Tail(ss))

RECURSIVE SumSeq(_)
SumSeq(s) == IF s = <<>> THEN 0 ELSE Head(s) + SumSeq(Tail(s))

Abs(n) == IF n < 0 THEN -n ELSE n

RECURSIVE GCD(_, _)
GCD(a, b) == IF b = 0 THEN a ELSE GCD(b, a % b)

\* Python's true division a / b of two integers, kept exact: the fraction
\* <<numerator, denominator>> in lowest terms with a positive denominator.
TrueDiv(a, b) ==
    LET g == GCD(Abs(a), b)
    IN  <<a \div g, b \div g>>

(***************************************************************************)
(* shapely.geometry.shape: a __geo_interface__ mapping (what fastkml's     *)
(* placemark.geometry and a stored GeoJSON geometry both expose) becomes a *)
(* geometry object.  shapely refuses a LineString of one coordinate and a  *)
(* ring of fewer than three, and closes a ring left open.                  *)
(***************************************************************************)
CloseRing(cs) == IF cs[1] = cs[Len(cs)] THEN cs ELSE Append(cs, cs[1])

LinearRing(cs) == [geom_type |-> "LinearRing", coords |-> CloseRing(cs)]

RingOk(cs) == Len(cs) >= 3

RECURSIVE shape(_)
shape(g) ==
    CASE g.type = "Point" ->
            Return([geom_type |-> "Point", x |-> g.coordinates[1],
                    y |-> g.coordinates[2], coords |-> <<g.coordinates>>])
      [] g.type = "LineString" ->
            IF Len(g.coordinates) = 1 THEN Raised
            ELSE Return([geom_type |-> "LineString", coords |-> g.coordinates])
      [] g.type = "LinearRing" ->
            IF ~RingOk(g.coordinates) THEN Raised
            ELSE Return(LinearRing(g.coordinates))
      [] g.type = "Polygon" ->
            IF \E i \in DOMAIN g.coordinates : ~RingOk(g.coordinates[i]) THEN Raised
            ELSE Return([geom_type |-> "Polygon",
                         exterior |-> LinearRing(g.coordinates[1]),
                         interiors |-> [i \in 1..(Len(g.coordinates) - 1) |->
                                           LinearRing(g.coordinates[i + 1])]])
      [] g.type \in {"MultiPoint", "MultiLineString", "MultiPolygon"} ->
            LET childType == CASE g.type = "MultiPoint" -> "Point"
                               [] g.type = "MultiLineString" -> "LineString"
                               [] OTHER -> "Polygon"
                parts == [i \in DOMAIN g.coordinates |->
                             shape([type |-> childType, coordinates |-> g.coordinates[i]])]
            IN  IF \E i \in DOMAIN parts : parts[i] = Raised THEN Raised
                ELSE Return([geom_type |-> g.type,
                             geoms |-> [i \in DOMAIN parts |-> parts[i].value]])
      [] g.type = "GeometryCollection" ->
            LET parts == [i \in DOMAIN g.geometries |-> shape(g.geometries[i])]
            IN  IF \E i \in DOMAIN parts : parts[i] = Raised THEN Raised
                ELSE Return([geom_type |-> "GeometryCollection",
                             geoms |-> [i \in DOMAIN parts |-> parts[i].value]])
      [] OTHER -> Raised

(***************************************************************************)
(* shapely.geometry.mapping: a geometry object becomes a GeoJSON mapping.  *)
(***************************************************************************)
RECURSIVE mapping(_)
mapping(geom) ==
    CASE geom.geom_type = "Point" ->
            [type |-> "Point", coordinates |-> geom.coords[1]]
      [] geom.geom_type \in {"LineString", "LinearRing"} ->
            [type |-> geom.geom_type, coordinates |-> geom.coords]
      [] geom.geom_type = "Polygon" ->
            [type |-> "Polygon",
             coordinates |-> <<geom.exterior.coords>> \o
                             [i \in DOMAIN geom.interiors |-> geom.interiors[i].coords]]
      [] geom.geom_type = "GeometryCollection" ->
            [type |-> "GeometryCollection",
             geometries |-> [i \in DOMAIN geom.geoms |-> mapping(geom.geoms[i])]]
      [] OTHER ->
            [type |-> geom.geom_type,
             coordinates |-> [i \in DOMAIN geom.geoms |-> mapping(geom.geoms[i]).coordinates]]

(***************************************************************************)
(* extract_coordinates                                                     *)
(***************************************************************************)
StartsWithMulti(geom_type) ==
    geom_type \in {"MultiPoint", "MultiLineString", "MultiPolygon"}

extract_point(geometry) == <<<<geometry.x, geometry.y>>>>

extract_line(geometry) == geometry.coords

\* a variant that also walks the holes
extract_polygon_with_holes(geometry) ==
    geometry.exterior.coords
        \o Flatten([i \in DOMAIN geometry.interiors |-> geometry.interiors[i].coords])

extract_polygon(geometry) == geometry.exterior.coords

RECURSIVE extract_coordinates(_)
extract_coordinates(geometry) ==
    LET geom_type == geometry.geom_type
    IN  IF geom_type = "Point" THEN extract_point(geometry)
        ELSE IF geom_type \in {"LineString", "LinearRing"} THEN extract_line(geometry)
        ELSE IF geom_type = "Polygon" THEN extract_polygon(geometry)
        ELSE IF StartsWithMulti(geom_type) \/ geom_type = "GeometryCollection"
        THEN Flatten([i \in DOMAIN geometry.geoms |->
                         extract_coordinates(geometry.geoms[i])])
        ELSE <<>>


(***************************************************************************)
(* features_from_document: the walk over what document.features() yields.  *)
(* acc holds the two lists the walk appends to, and whether it raised.     *)
(***************************************************************************)
getattr(obj, attr, default) == IF attr \in DOMAIN obj THEN obj[attr] ELSE default

\* `feature.geometry` used as a condition: None is false, a geometry is true
geometry_truthy(feature) == feature.geometry # None

prop_name(feature) == getattr(feature, "name", Some(""))

prop_description(feature) == getattr(feature, "description", Some(""))

feature_dict(feature, geom) ==
    [type |-> "Feature",
     geometry |-> mapping(geom),
     properties |-> [name |-> prop_name(feature),
                     description |-> prop_description(feature)]]

\* lines 96-109: one geometry-bearing feature is converted and appended
convert_feature(feature, acc) ==
    LET geom == shape(feature.geometry[1])
    IN  IF geom = Raised THEN [acc EXCEPT !.raised = TRUE]
        ELSE [acc EXCEPT
                 !.coords_list = @ \o extract_coordinates(geom.value),
                 !.features_list = Append(@, feature_dict(feature, geom.value))]

has_features(document) == "features" \in DOMAIN document

RECURSIVE features_from_document(_, _)
RECURSIVE features_loop(_, _, _)
features_from_document(document, acc) ==
    IF has_features(document) THEN features_loop(document.features, 1, acc) ELSE acc

features_loop(fs, i, acc) ==
    IF acc.raised \/ i > Len(fs) THEN acc
    ELSE LET feature == fs[i]
             a1 == IF "geometry" \in DOMAIN feature /\ geometry_truthy(feature)
                   THEN convert_feature(feature, acc) ELSE acc
             a2 == IF ~a1.raised /\ "features" \in DOMAIN feature
                   THEN features_from_document(feature, a1) ELSE a1
         IN  features_loop(fs, i + 1, a2)

(***************************************************************************)
(* parse_kml_data.  kml_data is the markup: kml_data.bytes is "empty" (no  *)
(* bytes), "garbage" (not XML) or "xml"; for "xml", kml_data.features is   *)
(* what k.features() yields after k.from_string(kml_data).                 *)
(***************************************************************************)
etree_fromstring(kml_data) == IF kml_data.bytes = "xml" THEN Return(kml_data) ELSE Raised

FeatureCollection(features) == [type |-> "FeatureCollection", features |-> features]

\* a variant that returns the pair in storage order, (lon, lat)
center_of_lon_lat(all_coords) ==
    IF all_coords # <<>>
    THEN <<<<TrueDiv(SumSeq([i \in DOMAIN all_coords |-> all_coords[i][1]]), Len(all_coords)),
             TrueDiv(SumSeq([i \in DOMAIN all_coords |-> all_coords[i][2]]), Len(all_coords))>>>>
    ELSE None

\* lines 75-80
center_of(all_coords) ==
    IF all_coords # <<>>
    THEN LET avg_lat == TrueDiv(SumSeq([i \in DOMAIN all_coords |-> all_coords[i][2]]),
                                Len(all_coords))
             avg_lon == TrueDiv(SumSeq([i \in DOMAIN all_coords |-> all_coords[i][1]]),
                                Len(all_coords))
         IN  Some(<<avg_lat, avg_lon>>)
    ELSE None

\* a variant of the handler that returns what was gathered before the error
kml_except_partial(acc) ==
    <<Some(FeatureCollection(acc.features_list)), center_of(acc.coords_list)>>

\* lines 84-86: the handler of any exception raised in the body
kml_except(acc) == <<None, None>>

RECURSIVE top_loop(_, _, _)
top_loop(fs, i, acc) ==
    IF acc.raised \/ i > Len(fs) THEN acc
    ELSE top_loop(fs, i + 1, features_from_document(fs[i], acc))

EmptyAcc == [features_list |-> <<>>, coords_list |-> <<>>, raised |-> FALSE]

\* lines 58-67: the two lists after the loop over k.features(), or raised
kml_walk(kml_data) ==
    IF etree_fromstring(kml_data) = Raised THEN [EmptyAcc EXCEPT !.raised = TRUE]
    ELSE top_loop(kml_data.features, 1, EmptyAcc)

\* a variant that reports a document without features as a failure
parse_kml_data_none_when_empty(kml_data) ==
    LET acc == kml_walk(kml_data)
    IN  IF acc.raised \/ acc.features_list = <<>> THEN Return(kml_except(acc))
        ELSE Return(<<Some(FeatureCollection(acc.features_list)),
                      center_of(acc.coords_list)>>)

\* lines 56-86
parse_kml_data(kml_data) ==
    LET acc == kml_walk(kml_data)
    IN  IF acc.raised THEN Return(kml_except(acc))
        ELSE Return(<<Some(FeatureCollection(acc.features_list)),
                      center_of(acc.coords_list)>>)

(***************************************************************************)
(* parse_kmz_file.  An upload is [zip |-> FALSE] (zipfile.ZipFile raises   *)
(* BadZipFile) or [zip |-> TRUE, entries |-> <<[name, data], ...>>] in the *)
(* archive's directory order.  A name is the sequence of its parts, such   *)
(* as <<"doc", ".kml">>.                                                   *)
(***************************************************************************)
endswith(name, suffix) == name # <<>> /\ name[Len(name)] = suffix

namelist(kmz) == [i \in DOMAIN kmz.entries |-> kmz.entries[i].name]

\* lines 28-32: the first name ending in .kml, or None
RECURSIVE find_kml(_, _)
find_kml(names, i) ==
    IF i > Len(names) THEN None
    ELSE IF endswith(names[i], ".kml") THEN Some(names[i])
    ELSE find_kml(names, i + 1)

select_kml(kmz) == find_kml(namelist(kmz), 1)

\* ZipFile.read(name) looks the member up by name; of several members with
\* one name the archive's name table keeps the last.
zip_read(kmz, name) ==
    LET idx == {i \in DOMAIN kmz.entries : kmz.entries[i].name = name}
        last == CHOOSE i \in idx : \A j \in idx : j <= i
    IN  kmz.entries[last].data

\* lines 34-35
no_kml_result == <<None, None>>

\* a variant without the handler: the exception reaches the caller
kmz_except_reraise == Raised

\* lines 41-43: the handler of any exception raised in the body
kmz_except == Return(<<None, None>>)

parse_kmz_file(kmz_file) ==
    IF ~kmz_file.zip THEN kmz_except
    ELSE LET kml_file == select_kml(kmz_file)
         IN  IF kml_file = None THEN Return(no_kml_result)
             ELSE LET r == parse_kml_data(zip_read(kmz_file, kml_file[1]))
                  IN  IF r = Raised THEN kmz_except ELSE r


(***************************************************************************)
(* calculate_path_distance.  The transformer from EPSG:4326 to EPSG:3857   *)
(* (Web Mercator, R = 6378137 m) sends (lon, lat) in degrees to            *)
(*     x = R * rad(lon),   y = R * ln(tan(pi/4 + rad(lat)/2)).             *)
(* Both are held in thousandths of MetresPerDegree = R * rad(1), so x is   *)
(* 1000 * lon and y is tabulated for the latitudes of the inputs.  Lengths *)
(* are whole metres; the result is in hundredths of a kilometre, which is  *)
(* what round(total_distance / 1000, 2) keeps.                             *)
(***************************************************************************)
MetresPerDegree == 111319

transform_x(lon) == 1000 * lon

\* 1000 * (180/pi) * ln(tan(pi/4 + rad(lat)/2)), to the nearest integer
transform_y(lat) ==
    CASE lat = 0 -> 0
      [] lat = 1 -> 1000
      [] lat = 2 -> 2000
      [] lat = 3 -> 3001
      [] lat = 4 -> 4003
      [] lat = 5 -> 5006
      [] lat = 6 -> 6011
      [] lat = 37 -> 39877
      [] lat = 38 -> 41138
      [] lat = 39 -> 42415

RECURSIVE ISqrtIn(_, _, _)
ISqrtIn(n, lo, hi) ==
    IF lo = hi THEN lo
    ELSE LET mid == (lo + hi + 1) \div 2
         IN  IF mid * mid <= n THEN ISqrtIn(n, mid, hi) ELSE ISqrtIn(n, lo, mid - 1)

ISqrt(n) == ISqrtIn(n, 0, IF n < 46340 THEN n ELSE 46340)

\* a / b rounded to the nearest integer, ties to even, for b > 0
RoundDiv(a, b) ==
    LET q == a \div b
        r == a % b
    IN  IF 2 * r < b THEN q
        ELSE IF 2 * r > b THEN q + 1
        ELSE IF q % 2 = 0 THEN q ELSE q + 1

\* the length in metres of the projected segment from c to d
segment_length(c, d) ==
    LET dx == transform_x(d[1]) - transform_x(c[1])
        dy == transform_y(d[2]) - transform_y(c[2])
    IN  (MetresPerDegree * ISqrt(dx * dx + dy * dy)) \div 1000

line_length(coords) ==
    SumSeq([i \in 1..(Len(coords) - 1) |-> segment_length(coords[i], coords[i + 1])])

\* a variant that also measures the rings of polygons
projected_length_with_rings(geom) ==
    IF geom.geom_type = "LineString" THEN line_length(geom.coords)
    ELSE IF geom.geom_type = "MultiLineString"
    THEN SumSeq([i \in DOMAIN geom.geoms |-> line_length(geom.geoms[i].coords)])
    ELSE IF geom.geom_type = "Polygon" THEN line_length(geom.exterior.coords)
    ELSE 0

\* lines 162-165: what one feature adds to total_distance
projected_length(geom) ==
    IF geom.geom_type = "LineString" THEN line_length(geom.coords)
    ELSE IF geom.geom_type = "MultiLineString"
    THEN SumSeq([i \in DOMAIN geom.geoms |-> line_length(geom.geoms[i].coords)])
    ELSE 0

\* a variant that stops at the failing feature and keeps the sum so far
RECURSIVE distance_loop_partial(_, _, _)
distance_loop_partial(features, i, total_distance) ==
    IF i > Len(features) THEN Return(total_distance)
    ELSE IF "geometry" \notin DOMAIN features[i] THEN Return(total_distance)
    ELSE LET geom == shape(features[i].geometry)
         IN  IF geom = Raised THEN Return(total_distance)
             ELSE distance_loop_partial(features, i + 1,
                                        total_distance + projected_length(geom.value))

\* lines 159-165: total_distance after the loop, or Raised
RECURSIVE distance_loop(_, _, _)
distance_loop(features, i, total_distance) ==
    IF i > Len(features) THEN Return(total_distance)
    ELSE IF "geometry" \notin DOMAIN features[i] THEN Raised
    ELSE LET geom == shape(features[i].geometry)
         IN  IF geom = Raised THEN Raised
             ELSE distance_loop(features, i + 1, total_distance + projected_length(geom.value))

\* lines 146-172; the import of line 148 is inside the try
calculate_path_distance(geojson_data) ==
    LET features == IF "features" \in DOMAIN geojson_data THEN geojson_data.features ELSE <<>>
        total == distance_loop(features, 1, 0)
    IN  IF ~pyproj THEN None
        ELSE IF total = Raised THEN None
        ELSE Some(RoundDiv(total.value, 10))

(***************************************************************************)
(* CircuitPathEditView.post on the one CircuitPath record of a circuit.    *)
(* A request is [valid, FILES, POST]: whether form.is_valid(), the upload  *)
(* under "kmz_file" if any, and the submitted form fields.  The decimal    *)
(* columns hold integers: map_center_lat and map_center_lon in millionths  *)
(* of a degree (decimal_places=6), path_distance_km in hundredths of a     *)
(* kilometre (decimal_places=2).                                           *)
(***************************************************************************)
\* Python truth of an Optional dict, an Optional tuple, an Optional number
dict_truthy(o) == o # None /\ DOMAIN o[1] # {}
tuple_truthy(o) == o # None /\ o[1] # <<>>
number_truthy(o) == o # None /\ o[1] # 0

\* a float, held as the fraction <<n, d>>, as DecimalField(decimal_places=6) stores it
to_decimal6(q) == RoundDiv(q[1] * 1000000, q[2])

\* form.is_valid() on a ModelForm writes the cleaned form fields to form.instance
construct_instance(obj, POST) ==
    [obj EXCEPT !.map_center_lat = POST.map_center_lat,
                !.map_center_lon = POST.map_center_lon,
                !.path_distance_km = POST.path_distance_km]

\* lines 120-123
store_distance(form_instance, distance) ==
    IF number_truthy(distance)
    THEN [form_instance EXCEPT !.path_distance_km = distance]
    ELSE form_instance

\* a variant that keeps the collection only when it has a distance
store_parsed_with_distance(form_instance, geojson_data, center_coords) ==
    IF dict_truthy(geojson_data) /\ tuple_truthy(center_coords)
          /\ calculate_path_distance(geojson_data[1]) # None
    THEN store_distance(
             [form_instance EXCEPT
                 !.geojson_data = geojson_data,
                 !.map_center_lat = Some(to_decimal6(center_coords[1][1])),
                 !.map_center_lon = Some(to_decimal6(center_coords[1][2]))],
             calculate_path_distance(geojson_data[1]))
    ELSE form_instance

\* lines 115-123
store_parsed(form_instance, geojson_data, center_coords) ==
    IF dict_truthy(geojson_data) /\ tuple_truthy(center_coords)
    THEN store_distance(
             [form_instance EXCEPT
                 !.geojson_data = geojson_data,
                 !.map_center_lat = Some(to_decimal6(center_coords[1][1])),
                 !.map_center_lon = Some(to_decimal6(center_coords[1][2]))],
             calculate_path_distance(geojson_data[1]))
    ELSE form_instance

\* lines 111-123
process_kmz(form_instance, FILES) ==
    IF FILES # None
    THEN LET parsed == parse_kmz_file(FILES[1]).value
         IN  store_parsed(form_instance, parsed[1], parsed[2])
    ELSE form_instance

(***************************************************************************)
(* Inputs.  Coordinates are whole degrees, (lon, lat) or (lon, lat, alt).  *)
(***************************************************************************)
MaxNodes == 3       \* placemarks and folders in one markup document
MaxEntries == 2     \* entries in one archive

GPoint == [type |-> "Point", coordinates |-> <<1, 2, 0>>]
GLine == [type |-> "LineString", coordinates |-> <<<<0, 0>>, <<3, 4>>>>]
GLine3 == [type |-> "LineString", coordinates |-> <<<<-1, 0, 0>>, <<-1, 3, 0>>, <<3, 3, 0>>>>]
GLineBad == [type |-> "LineString", coordinates |-> <<<<5, 5>>>>]
GRing == [type |-> "LinearRing", coordinates |-> <<<<0, 0>>, <<2, 0>>, <<0, 2>>>>]
GPolygon ==
    [type |-> "Polygon",
     coordinates |-> <<<<<<0, 0>>, <<4, 0>>, <<4, 4>>, <<0, 4>>, <<0, 0>>>>,
                       <<<<1, 1>>, <<2, 1>>, <<1, 2>>, <<1, 1>>>>>>]
GMultiPoint == [type |-> "MultiPoint", coordinates |-> <<<<1, 2, 0>>, <<4, 3>>>>]
GMultiLine ==
    [type |-> "MultiLineString",
     coordinates |-> <<<<<<0, 0>>, <<0, 1>>>>, <<<<2, 2>>, <<2, 5>>>>>>]
GMultiPolygon ==
    [type |-> "MultiPolygon",
     coordinates |-> <<GPolygon.coordinates, <<<<<<5, 5>>, <<6, 5>>, <<5, 6>>>>>>>>]
GMeridian ==
    [type |-> "LineString", coordinates |-> <<<<-122, 37>>, <<-122, 38>>, <<-122, 39>>>>]
GMeridianLow == [type |-> "LineString", coordinates |-> <<<<2, 0>>, <<2, 1>>, <<2, 3>>>>]
GCollection == [type |-> "GeometryCollection", geometries |-> <<GPoint, GLine3>>]
GNested == [type |-> "GeometryCollection", geometries |-> <<GMultiLine, GCollection, GPolygon>>]

GeoInterfaces ==
    {GPoint, GLine, GLine3, GLineBad, GRing, GPolygon, GMultiPoint, GMultiLine,
     GMultiPolygon, GCollection, GNested}

\* the geometry objects extract_coordinates is called with
Geometries == {shape(g).value : g \in {h \in GeoInterfaces : shape(h) # Raised}}

\* placemarks as fastkml builds them: name and description are always
\* attributes, None where the markup has no such element
PmPoint == [name |-> Some("A"), description |-> Some("site A"), geometry |-> Some(GPoint)]
PmLine == [name |-> None, description |-> None, geometry |-> Some(GLine)]
PmPolygon == [name |-> None, description |-> Some("area"), geometry |-> Some(GPolygon)]
PmMulti == [name |-> Some("M"), description |-> None, geometry |-> Some(GMultiLine)]
PmNoGeom == [name |-> Some("N"), description |-> Some("note"), geometry |-> None]
PmBad == [name |-> Some("B"), description |-> None, geometry |-> Some(GLineBad)]

Placemarks == {PmPoint, PmLine, PmPolygon, PmMulti, PmNoGeom, PmBad}

Folder(children) == [features |-> children]

\* the trees of exactly n nodes, and the sequences of trees of n nodes in all
RECURSIVE Trees(_)
RECURSIVE Forests(_)
Trees(n) ==
    (IF n = 1 THEN Placemarks ELSE {}) \cup {Folder(f) : f \in Forests(n - 1)}

Forests(n) ==
    IF n = 0 THEN {<<>>}
    ELSE UNION {{<<t>> \o f : t \in Trees(k), f \in Forests(n - k)} : k \in 1..n}

Xml(features) == [bytes |-> "xml", features |-> features]
MkEmpty == [bytes |-> "empty"]
MkGarbage == [bytes |-> "garbage"]

Markups ==
    {MkEmpty, MkGarbage} \cup {Xml(f) : f \in UNION {Forests(n) : n \in 0..MaxNodes}}

\* the markup documents placed in archives
MkPoint == Xml(<<Folder(<<PmPoint>>)>>)
MkLine == Xml(<<Folder(<<PmLine, PmNoGeom>>)>>)
MkNoGeom == Xml(<<Folder(<<PmNoGeom>>)>>)
KmzMarkups == {MkEmpty, MkPoint, MkLine, MkNoGeom}

Names == {<<"doc", ".kml">>, <<"a", ".kml">>, <<"notes", ".txt">>, <<"doc", ".kml", ".bak">>}

Entries == [name : Names, data : KmzMarkups]

RECURSIVE SeqsUpTo(_, _)
SeqsUpTo(S, n) ==
    IF n = 0 THEN {<<>>}
    ELSE SeqsUpTo(S, n - 1) \cup
         {Append(q, e) : q \in {r \in SeqsUpTo(S, n - 1) : Len(r) = n - 1}, e \in S}

NotAZip == [zip |-> FALSE]
Zip(entries) == [zip |-> TRUE, entries |-> entries]

Uploads == {NotAZip} \cup {Zip(es) : es \in SeqsUpTo(Entries, MaxEntries)}

\* the GeoJSON documents calculate_path_distance is called with
MaxFeatures == 3    \* features in one collection

Feature(g) ==
    [type |-> "Feature", geometry |-> g, properties |-> [name |-> "", description |-> ""]]

FeatureNoGeometry == [type |-> "Feature", properties |-> [name |-> "", description |-> ""]]

DistanceFeatures ==
    {Feature(GPoint), Feature(GPolygon), Feature(GLine), Feature(GMultiLine),
     Feature(GMeridian), Feature(GMeridianLow), Feature(GLineBad), FeatureNoGeometry}

NoFeaturesKey == [type |-> "FeatureCollection"]

Collections ==
    {NoFeaturesKey}
    \cup {FeatureCollection(fs) : fs \in SeqsUpTo(DistanceFeatures, MaxFeatures)}

(***************************************************************************)
(* The pipeline called once: Init draws the call, one action per function  *)
(* applies it.                                                             *)
(***************************************************************************)
Calls ==
    {[fn |-> "parse_kmz_file", arg |-> u] : u \in Uploads}
    \cup {[fn |-> "parse_kml_data", arg |-> m] : m \in Markups}
    \cup {[fn |-> "extract_coordinates", arg |-> g] : g \in Geometries}
    \cup {[fn |-> "calculate_path_distance", arg |-> c] : c \in Collections}

Idle == [fn |-> "idle"]

NewInstance ==
    [geojson_data |-> None, map_center_lat |-> None, map_center_lon |-> None,
     path_distance_km |-> None]

NoRequest == [method |-> "none"]

ViewInit ==
    /\ instance = NewInstance
    /\ request = NoRequest
    /\ outcome = "none"
    /\ nPosts = 0

\* no file object is in use
FileInit ==
    /\ file_object = [content |-> NotAZip, position |-> "start"]
    /\ returns = <<>>

CallInit ==
    /\ call = Idle
    /\ ret = Pending

NewConfig == [last_sync |-> "never", sync_status |-> [status |-> "none"]]

\* no synchronisation is in progress
SyncInit ==
    /\ provider = [authenticate |-> "False"]
    /\ config = NewConfig
    /\ sync_result = Pending

\* registry.py line 7
EmptyDict == <<>>

\* nothing is registered and no call was made
RegistryInit ==
    /\ registry = EmptyDict
    /\ ops = <<>>
    /\ answer = [op |-> "none"]

\* the command has not run
CommandInit ==
    /\ table = <<>>
    /\ options = [provider |-> None, test |-> FALSE]
    /\ stdout = <<>>
    /\ events = <<>>
    /\ handled = Pending

\* no cost was synchronised
CostInit ==
    /\ cost_rows = <<>>
    /\ cost_call = [op |-> "none"]

\* no ticket was synchronised
TicketInit ==
    /\ ticket_rows = <<>>
    /\ ticket_call = [op |-> "none"]

\* no view was asked for
MapInit ==
    /\ path_record = None
    /\ context = Pending

\* no invocation is in progress
ThreadInit ==
    /\ invocations = <<>>
    /\ heap = <<>>

InitParse ==
    /\ CostInit
    /\ TicketInit
    /\ MapInit
    /\ call \in Calls
    /\ ret = Pending
    /\ ViewInit
    /\ FileInit
    /\ ThreadInit
    /\ SyncInit
    /\ RegistryInit
    /\ CommandInit
    /\ pyproj \in BOOLEAN

CallParseKmz ==
    /\ ret = Pending
    /\ call.fn = "parse_kmz_file"
    /\ ret' = parse_kmz_file(call.arg)
    /\ UNCHANGED <<call, OutsideParse>>

CallParseKml ==
    /\ ret = Pending
    /\ call.fn = "parse_kml_data"
    /\ ret' = parse_kml_data(call.arg)
    /\ UNCHANGED <<call, OutsideParse>>

CallExtract ==
    /\ ret = Pending
    /\ call.fn = "extract_coordinates"
    /\ ret' = Return(extract_coordinates(call.arg))
    /\ UNCHANGED <<call, OutsideParse>>

CallDistance ==
    /\ ret = Pending
    /\ call.fn = "calculate_path_distance"
    /\ ret' = Return(calculate_path_distance(call.arg))
    /\ UNCHANGED <<call, OutsideParse>>

NextParse == CallParseKmz \/ CallParseKml \/ CallExtract \/ CallDistance

SpecParse == InitParse /\ [][NextParse]_vars


(***************************************************************************)
(* A sequence of requests to the edit view of one record.                  *)
(***************************************************************************)
MaxPosts == 2       \* requests handled in one run

\* the uploads sent to the view: not an archive, or an archive of at most one entry
ViewUploads == {NotAZip} \cup {Zip(es) : es \in SeqsUpTo(Entries, 1)}

\* the values typed into the form's map_center_lat, map_center_lon, path_distance_km
FormFields ==
    [map_center_lat : {None, Some(1500000)},
     map_center_lon : {None, Some(-2250000)},
     path_distance_km : {None, Some(1250)}]

Requests ==
    [valid : BOOLEAN, FILES : {None} \cup {Some(u) : u \in ViewUploads}, POST : FormFields]

InitUpload ==
    /\ CostInit
    /\ TicketInit
    /\ MapInit
    /\ CallInit
    /\ ViewInit
    /\ FileInit
    /\ ThreadInit
    /\ SyncInit
    /\ RegistryInit
    /\ CommandInit
    /\ pyproj \in BOOLEAN

\* lines 105-127
Post(req) ==
    /\ nPosts < MaxPosts
    /\ nPosts' = nPosts + 1
    /\ request' = req
    /\ IF req.valid
       THEN /\ instance' = process_kmz(construct_instance(instance, req.POST), req.FILES)
            /\ outcome' = "saved"
       ELSE /\ instance' = instance
            /\ outcome' = "invalid"
    /\ UNCHANGED OutsideUpload

NextUpload == \E req \in Requests : Post(req)

SpecUpload == InitUpload /\ [][NextUpload]_vars

(***************************************************************************)
(* parse_kmz_file called again and again with one file object.  The file   *)
(* object holds the bytes of an upload and a position, at the start or at  *)
(* the end of them; the caller may rewind it between calls.                *)
(***************************************************************************)
MaxCalls == 3       \* calls of parse_kmz_file on the one file object

FileObjects == {[content |-> u, position |-> "start"] : u \in Uploads}

\* a variant of read() that returns the whole content whatever the position
file_read_all(f) == f.content

\* line 26, kmz_file.read(): the bytes from the position on; none are left
\* at the end, and no bytes are not an archive
file_read(f) == IF f.position = "start" THEN f.content ELSE NotAZip

InitReread ==
    /\ CostInit
    /\ TicketInit
    /\ MapInit
    /\ file_object \in FileObjects
    /\ returns = <<>>
    /\ CallInit
    /\ ViewInit
    /\ ThreadInit
    /\ SyncInit
    /\ RegistryInit
    /\ CommandInit
    /\ pyproj = TRUE

\* lines 12-43, the position read() leaves behind included
ParseKmzFile ==
    /\ Len(returns) < MaxCalls
    /\ returns' = Append(returns, [at |-> file_object.position,
                                   result |-> parse_kmz_file(file_read(file_object))])
    /\ file_object' = [file_object EXCEPT !.position = "end"]
    /\ UNCHANGED OutsideReread

\* the caller's kmz_file.seek(0)
Rewind ==
    /\ file_object.position = "end"
    /\ file_object' = [file_object EXCEPT !.position = "start"]
    /\ UNCHANGED <<returns, OutsideReread>>

NextReread == ParseKmzFile \/ Rewind

SpecReread == InitReread /\ [][NextReread]_vars

(***************************************************************************)
(* Invocations of parse_kml_data running at the same time, one per upload. *)
(* A step of an invocation is the body of the loop of line 94 for one      *)
(* feature; todo holds the features the invocation has still to visit, in  *)
(* the order the recursion visits them.  The lists made by lines 61-62 are *)
(* objects on the heap, found by their identity.                           *)
(***************************************************************************)
MaxInvocations == 2     \* invocations running at the same time

MkFails == Xml(<<Folder(<<PmLine, PmBad>>)>>)
MkDeep == Xml(<<Folder(<<PmPolygon, Folder(<<PmMulti>>)>>), Folder(<<PmPoint>>)>>)

ThreadMarkups == {MkEmpty, MkPoint, MkLine, MkFails, MkDeep}

\* a variant in which every invocation works on the same two list objects
list_of_shared(p) == 1

\* lines 61-62: `features = []` and `all_coords = []` make new objects in
\* each invocation
list_of(p) == p

NewLists == [features_list |-> <<>>, coords_list |-> <<>>]

\* the features the loops of lines 65 and 94 visit first: the children of
\* the entries of k.features()
FirstFeatures(fs) ==
    Flatten([i \in DOMAIN fs |-> IF has_features(fs[i]) THEN fs[i].features ELSE <<>>])

InitThreads ==
    /\ CostInit
    /\ TicketInit
    /\ MapInit
    /\ invocations \in [1..MaxInvocations ->
                           {[kml_data |-> m, pc |-> "called", todo |-> <<>>, result |-> Pending] :
                                m \in ThreadMarkups}]
    /\ heap = [p \in 1..MaxInvocations |-> NewLists]
    /\ CallInit
    /\ ViewInit
    /\ FileInit
    /\ SyncInit
    /\ RegistryInit
    /\ CommandInit
    /\ pyproj = TRUE

\* lines 56-62
Begin(p) ==
    /\ invocations[p].pc = "called"
    /\ IF etree_fromstring(invocations[p].kml_data) = Raised
       THEN /\ invocations' = [invocations EXCEPT ![p].pc = "done",
                                                  ![p].result = Return(kml_except(EmptyAcc))]
            /\ heap' = heap
       ELSE /\ invocations' =
                  [invocations EXCEPT ![p].pc = "walk",
                                      ![p].todo = FirstFeatures(invocations[p].kml_data.features)]
            /\ heap' = [heap EXCEPT ![list_of(p)] = NewLists]
    /\ UNCHANGED OutsideThreads

\* lines 94-113 for the next feature
Visit(p) ==
    /\ invocations[p].pc = "walk"
    /\ invocations[p].todo # <<>>
    /\ LET feature == Head(invocations[p].todo)
           lists == heap[list_of(p)]
           acc == [features_list |-> lists.features_list,
                   coords_list |-> lists.coords_list,
                   raised |-> FALSE]
           a1 == IF "geometry" \in DOMAIN feature /\ geometry_truthy(feature)
                 THEN convert_feature(feature, acc) ELSE acc
       IN  IF a1.raised
           THEN /\ invocations' = [invocations EXCEPT ![p].pc = "done",
                                                      ![p].result = Return(kml_except(a1))]
                /\ heap' = heap
           ELSE /\ invocations' =
                      [invocations EXCEPT
                          ![p].todo = (IF has_features(feature) THEN feature.features ELSE <<>>)
                                      \o Tail(invocations[p].todo)]
                /\ heap' = [heap EXCEPT ![list_of(p)] =
                                [features_list |-> a1.features_list,
                                 coords_list |-> a1.coords_list]]
    /\ UNCHANGED OutsideThreads

\* lines 69-82
Finish(p) ==
    /\ invocations[p].pc = "walk"
    /\ invocations[p].todo = <<>>
    /\ invocations' =
          [invocations EXCEPT
              ![p].pc = "done",
              ![p].result = Return(<<Some(FeatureCollection(heap[list_of(p)].features_list)),
                                     center_of(heap[list_of(p)].coords_list)>>)]
    /\ heap' = heap
    /\ UNCHANGED OutsideThreads

NextThreads == \E p \in 1..MaxInvocations : Begin(p) \/ Visit(p) \/ Finish(p)

SpecThreads == InitThreads /\ [][NextThreads]_vars

(***************************************************************************)
(* BaseProviderSync.sync_all (src/circuithelper/providers/base.py).  The   *)
(* abstract methods are the provider's: `provider` says how each call      *)
(* ends.  provider.authenticate is "True", "False" or "raise";             *)
(* provider.circuits is what get_circuits returns, None when it raises;    *)
(* each entry is [data, raises, costs]: the circuit_data dict, whether one *)
(* of get_circuit_details, sync_circuit_costs, sync_circuit_tickets and    *)
(* sync_circuit_path (or the query of _match_circuit, for a cid NetBox     *)
(* has) raises for it, and the value sync_circuit_costs returns when       *)
(* nothing raises; provider.save_fails is the number of calls of           *)
(* config.save() that raise before one succeeds.  config is the stored     *)
(* row: a new one, or one an earlier run has written.                      *)
(***************************************************************************)
MaxCircuits == 2    \* circuits get_circuits returns

\* the cid of every circuit in NetBox
NetBoxCids == {"C1", "C2"}

CircuitData ==
    {[id |-> "1", cid |-> "C1"],
     [id |-> "2", cid |-> "", circuit_id |-> "C2"],
     [id |-> "3", cid |-> "X9"],
     [id |-> "4"],
     [cid |-> "C1"]}

RemoteCircuits == [data : CircuitData, raises : BOOLEAN, costs : BOOLEAN]

Providers ==
    [authenticate : {"True", "False", "raise"},
     circuits : {None} \cup {Some(cs) : cs \in SeqsUpTo(RemoteCircuits, MaxCircuits)},
     save_fails : 0..2]

\* dict.get(key): None when the key is absent
dict_get(d, key) == IF key \in DOMAIN d THEN Some(d[key]) ELSE None

\* Python truth of an Optional string
string_truthy(o) == o # None /\ o[1] # ""

\* lines 187-206
match_circuit(provider_data) ==
    LET provider_cid == IF string_truthy(dict_get(provider_data, "cid"))
                        THEN dict_get(provider_data, "cid")
                        ELSE dict_get(provider_data, "circuit_id")
    IN  IF string_truthy(provider_cid) /\ provider_cid[1] \in NetBoxCids
        THEN provider_cid
        ELSE None

NewStats == [total |-> 0, success |-> 0, failed |-> 0, errors |-> <<>>]

\* a variant of the loop body that passes over a circuit NetBox does not have
sync_one_skip_unmatched(stats, circuit) ==
    IF match_circuit(circuit.data) = None
    THEN stats
    ELSE IF "id" \notin DOMAIN circuit.data \/ circuit.raises
    THEN [stats EXCEPT !.failed = @ + 1, !.errors = Append(@, "Error syncing circuit")]
    ELSE [stats EXCEPT !.success = @ + 1]

\* lines 78-90: the value sync_circuit_costs returns for this circuit
sync_circuit_costs(circuit) == circuit.costs

\* a variant of the loop body that counts a circuit as a success only when
\* sync_circuit_costs returned True
sync_one_checking_costs(stats, circuit) ==
    IF match_circuit(circuit.data) = None
    THEN [stats EXCEPT !.failed = @ + 1, !.errors = Append(@, "Circuit not found")]
    ELSE IF "id" \notin DOMAIN circuit.data \/ circuit.raises
    THEN [stats EXCEPT !.failed = @ + 1, !.errors = Append(@, "Error syncing circuit")]
    ELSE IF sync_circuit_costs(circuit)
    THEN [stats EXCEPT !.success = @ + 1]
    ELSE [stats EXCEPT !.failed = @ + 1, !.errors = Append(@, "Error syncing circuit")]

\* lines 149-172: the body of the loop for one circuit; line 161 calls
\* sync_circuit_costs as a statement, so what it returns is dropped
sync_one(stats, circuit) ==
    IF match_circuit(circuit.data) = None
    THEN [stats EXCEPT !.failed = @ + 1, !.errors = Append(@, "Circuit not found")]
    ELSE IF "id" \notin DOMAIN circuit.data \/ circuit.raises
    THEN [stats EXCEPT !.failed = @ + 1, !.errors = Append(@, "Error syncing circuit")]
    ELSE LET costs_synced == sync_circuit_costs(circuit)
         IN  [stats EXCEPT !.success = @ + 1]

\* a variant of the loop that ends at the first circuit that fails
RECURSIVE sync_loop_until_failure(_, _, _)
sync_loop_until_failure(circuits_data, i, stats) ==
    IF i > Len(circuits_data) \/ stats.failed > 0 THEN stats
    ELSE sync_loop_until_failure(circuits_data, i + 1, sync_one(stats, circuits_data[i]))

RECURSIVE sync_loop(_, _, _)
sync_loop(circuits_data, i, stats) ==
    IF i > Len(circuits_data) THEN stats
    ELSE sync_loop(circuits_data, i + 1, sync_one(stats, circuits_data[i]))

\* lines 180-183: the handler of an exception raised in the body after
\* `saves` calls of config.save(); it returns [stats, config], or raises
\* when its own save() raises
sync_except(p, stats, cfg, saves) ==
    IF saves < p.save_fails THEN Raised
    ELSE Return([stats |-> [stats EXCEPT !.errors = Append(@, "Sync failed")],
                 config |-> [cfg EXCEPT !.sync_status = [status |-> "Failed"]]])

\* lines 134-185
sync_all(p, cfg) ==
    IF p.authenticate = "raise" THEN sync_except(p, NewStats, cfg, 0)
    ELSE IF p.authenticate = "False"
    THEN Return([stats |-> [NewStats EXCEPT !.errors = Append(@, "Authentication failed")],
                 config |-> cfg])
    ELSE IF p.circuits = None THEN sync_except(p, NewStats, cfg, 0)
    ELSE LET stats == sync_loop(p.circuits[1], 1,
                                [NewStats EXCEPT !.total = Len(p.circuits[1])])
             done == [cfg EXCEPT !.last_sync = "now",
                                 !.sync_status = [status |-> "Success",
                                                  success |-> stats.success,
                                                  total |-> stats.total]]
         IN  IF p.save_fails > 0 THEN sync_except(p, stats, done, 1)
             ELSE Return([stats |-> stats, config |-> done])

\* the row an earlier run of sync_all has left (lines 176-178)
EarlierConfig ==
    [last_sync |-> "earlier",
     sync_status |-> [status |-> "Success", success |-> 1, total |-> 1]]

StoredConfigs == {NewConfig, EarlierConfig}

InitSync ==
    /\ CostInit
    /\ TicketInit
    /\ MapInit
    /\ provider \in Providers
    /\ config \in StoredConfigs
    /\ sync_result = Pending
    /\ CallInit
    /\ ViewInit
    /\ FileInit
    /\ ThreadInit
    /\ RegistryInit
    /\ CommandInit
    /\ pyproj = TRUE

\* lines 120-185
SyncAll ==
    /\ sync_result = Pending
    /\ LET r == sync_all(provider, config)
       IN  IF r = Raised
           THEN /\ sync_result' = Raised
                /\ config' = config
           ELSE /\ sync_result' = Return(r.value.stats)
                /\ config' = r.value.config
    /\ UNCHANGED <<provider, OutsideSync>>

NextSync == SyncAll

SpecSync == InitSync /\ [][NextSync]_vars

(***************************************************************************)
(* ProviderRegistry (src/netbox_circuit_manager/providers/registry.py).    *)
(* The dict _providers is the sequence of its [key, value] pairs in        *)
(* insertion order.                                                        *)
(***************************************************************************)
MaxOps == 4         \* calls made on the registry

ProviderTypes == {"lumen", "att"}
ProviderClasses == {"LumenProviderSync", "MockProviderSync"}

has_key(providers, provider_type) ==
    \E i \in DOMAIN providers : providers[i].key = provider_type

\* a variant that keeps the class already registered under the key
register_keep_first(providers, provider_type, provider_class) ==
    IF has_key(providers, provider_type) THEN providers
    ELSE Append(providers, [key |-> provider_type, value |-> provider_class])

\* line 17: self._providers[provider_type] = provider_class
register(providers, provider_type, provider_class) ==
    IF has_key(providers, provider_type)
    THEN [i \in DOMAIN providers |->
             IF providers[i].key = provider_type
             THEN [key |-> provider_type, value |-> provider_class]
             ELSE providers[i]]
    ELSE Append(providers, [key |-> provider_type, value |-> provider_class])

\* line 29: self._providers.get(provider_type)
registry_get(providers, provider_type) ==
    IF has_key(providers, provider_type)
    THEN Some((CHOOSE e \in Range(providers) : e.key = provider_type).value)
    ELSE None

\* line 38: self._providers.copy()
get_all(providers) == providers

\* lines 47-48
unregister(providers, provider_type) ==
    IF has_key(providers, provider_type)
    THEN SelectSeq(providers, LAMBDA e : e.key # provider_type)
    ELSE providers

InitRegistry ==
    /\ CostInit
    /\ TicketInit
    /\ MapInit
    /\ RegistryInit
    /\ CommandInit
    /\ CallInit
    /\ ViewInit
    /\ FileInit
    /\ ThreadInit
    /\ SyncInit
    /\ pyproj = TRUE

Register(k, c) ==
    /\ Len(ops) < MaxOps
    /\ registry' = register(registry, k, c)
    /\ ops' = Append(ops, [op |-> "register", key |-> k, class |-> c])
    /\ answer' = [op |-> "register", result |-> Return(None)]
    /\ UNCHANGED OutsideRegistry

Get(k) ==
    /\ Len(ops) < MaxOps
    /\ registry' = registry
    /\ ops' = Append(ops, [op |-> "get", key |-> k, class |-> ""])
    /\ answer' = [op |-> "get", result |-> Return(registry_get(registry, k))]
    /\ UNCHANGED OutsideRegistry

GetAll ==
    /\ Len(ops) < MaxOps
    /\ registry' = registry
    /\ ops' = Append(ops, [op |-> "get_all", key |-> "", class |-> ""])
    /\ answer' = [op |-> "get_all", result |-> Return(get_all(registry))]
    /\ UNCHANGED OutsideRegistry

Unregister(k) ==
    /\ Len(ops) < MaxOps
    /\ registry' = unregister(registry, k)
    /\ ops' = Append(ops, [op |-> "unregister", key |-> k, class |-> ""])
    /\ answer' = [op |-> "unregister", result |-> Return(None)]
    /\ UNCHANGED OutsideRegistry

NextRegistry ==
    \/ \E k \in ProviderTypes, c \in ProviderClasses : Register(k, c)
    \/ \E k \in ProviderTypes : Get(k)
    \/ GetAll
    \/ \E k \in ProviderTypes : Unregister(k)

SpecRegistry == InitRegistry /\ [][NextRegistry]_vars

(***************************************************************************)
(* The sync_provider management command                                    *)
(* (src/netbox_circuit_manager/management/commands/sync_provider.py).      *)
(* A row of the table is [pk, provider_type, sync_enabled, remote,         *)
(* last_sync, sync_status]; remote is the carrier API behind the row, as   *)
(* in `provider` above.  A line of output is [text, pk]: what was written  *)
(* and the row it is about, 0 for none.                                    *)
(***************************************************************************)
MaxConfigs == 2     \* rows of ProviderAPIConfig

RemoteOk ==
    [authenticate |-> "True",
     circuits |-> Some(<<[data |-> [id |-> "1", cid |-> "C1"], raises |-> FALSE,
                         costs |-> TRUE]>>),
     save_fails |-> 0]
RemoteRefuses == [authenticate |-> "False", circuits |-> None, save_fails |-> 0]
RemoteDown == [authenticate |-> "raise", circuits |-> None, save_fails |-> 1]

CommandRemotes == {RemoteOk, RemoteRefuses, RemoteDown}

ConfigRows(pk) ==
    {[pk |-> pk, provider_type |-> t, sync_enabled |-> e, remote |-> r,
      last_sync |-> "never", sync_status |-> [status |-> "none"]] :
        t \in {"lumen", "nonexistent"}, e \in BOOLEAN, r \in CommandRemotes}

RECURSIVE Tables(_)
Tables(n) ==
    IF n = 0 THEN {<<>>}
    ELSE Tables(n - 1) \cup
         {Append(t, row) : t \in {u \in Tables(n - 1) : Len(u) = n - 1}, row \in ConfigRows(n)}

CommandOptions ==
    [provider : {None} \cup {Some(pk) : pk \in 1..(MaxConfigs + 1)}, test : BOOLEAN]

CommandRegistries == {EmptyDict, register(EmptyDict, "lumen", "LumenProviderSync")}

\* base.py lines 208-233
test_connection(p) ==
    IF p.authenticate = "True"
    THEN [success |-> TRUE, message |-> "Connection successful"]
    ELSE IF p.authenticate = "False"
    THEN [success |-> FALSE, message |-> "Authentication failed"]
    ELSE [success |-> FALSE, message |-> "Connection error"]

\* a variant of the filter that takes the row named by --provider as it is
filter_by_pk_only(rows, provider_id) ==
    IF provider_id # None
    THEN SelectSeq(rows, LAMBDA c : c.pk = provider_id[1])
    ELSE SelectSeq(rows, LAMBDA c : c.sync_enabled)

\* lines 26-29
filter_configs(rows, provider_id) ==
    IF provider_id # None
    THEN SelectSeq(rows, LAMBDA c : c.pk = provider_id[1] /\ c.sync_enabled)
    ELSE SelectSeq(rows, LAMBDA c : c.sync_enabled)

Line(text, pk) == [text |-> text, pk |-> pk]

\* a variant in which a type missing from the registry ends the loop
break_at(configs, i) == Len(configs) + 1

\* line 44: continue
continue_at(configs, i) == i + 1

\* config.save() inside sync_all: the row of that pk takes the saved fields
save_row(rows, pk, cfg) ==
    [j \in DOMAIN rows |->
        IF rows[j].pk = pk
        THEN [rows[j] EXCEPT !.last_sync = cfg.last_sync, !.sync_status = cfg.sync_status]
        ELSE rows[j]]

\* lines 70-84: the report of one sync_all
report(pk, stats) ==
    <<Line("Sync complete", pk)>>
    \o (IF stats.failed > 0 THEN <<Line("Failed", pk)>> ELSE <<>>)
    \o (IF stats.errors # <<>>
        THEN <<Line("Errors:", pk)>> \o [j \in DOMAIN stats.errors |-> Line(stats.errors[j], pk)]
        ELSE <<>>)

\* lines 35-84: the loop from its i-th config on; st is [table, stdout,
\* events, raised]
RECURSIVE handle_loop(_, _, _, _, _)
handle_loop(configs, i, test_only, providers, st) ==
    IF st.raised \/ i > Len(configs) THEN st
    ELSE LET api_config == configs[i]
             s1 == [st EXCEPT !.stdout = Append(@, Line("Processing provider", api_config.pk))]
             provider_class == registry_get(providers, api_config.provider_type)
         IN  IF provider_class = None
             THEN handle_loop(configs, continue_at(configs, i), test_only, providers,
                      [s1 EXCEPT !.stdout = Append(@, Line("not found in registry", api_config.pk))])
             ELSE LET s2 == [s1 EXCEPT !.events = Append(@, [call |-> "__init__",
                                                            pk |-> api_config.pk])]
                  IN  IF test_only
                      THEN LET result == test_connection(api_config.remote)
                           IN  handle_loop(configs, i + 1, test_only, providers,
                                 [s2 EXCEPT
                                    !.events = Append(@, [call |-> "test_connection",
                                                          pk |-> api_config.pk]),
                                    !.stdout = @ \o <<Line("Testing connection...", api_config.pk),
                                                      Line(IF result.success
                                                           THEN "Connection successful"
                                                           ELSE "Connection failed",
                                                           api_config.pk)>>])
                      ELSE LET r == sync_all(api_config.remote,
                                             [last_sync |-> api_config.last_sync,
                                              sync_status |-> api_config.sync_status])
                               s3 == [s2 EXCEPT
                                        !.events = Append(@, [call |-> "sync_all",
                                                              pk |-> api_config.pk]),
                                        !.stdout = Append(@, Line("Starting synchronization...",
                                                                  api_config.pk))]
                           IN  IF r = Raised THEN [s3 EXCEPT !.raised = TRUE]
                               ELSE handle_loop(configs, i + 1, test_only, providers,
                                      [s3 EXCEPT
                                         !.table = save_row(@, api_config.pk, r.value.config),
                                         !.stdout = @ \o report(api_config.pk, r.value.stats)])

\* a variant of the command that does not look at --test
options_get_test_ignored(opts) == FALSE

\* line 23: test_only = options.get('test', False)
options_get_test(opts) == opts.test

\* lines 21-86
handle(opts, rows, providers) ==
    LET configs == filter_configs(rows, opts.provider)
        st == [table |-> rows, stdout |-> <<>>, events |-> <<>>, raised |-> FALSE]
    IN  IF configs = <<>>
        THEN [st EXCEPT !.stdout = <<Line("No enabled provider configurations found", 0)>>]
        ELSE LET end == handle_loop(configs, 1, options_get_test(opts), providers, st)
             IN  IF end.raised THEN end
                 ELSE [end EXCEPT !.stdout = Append(@, Line("Done!", 0))]

InitCommand ==
    /\ CostInit
    /\ TicketInit
    /\ MapInit
    /\ table \in Tables(MaxConfigs)
    /\ options \in CommandOptions
    /\ registry \in CommandRegistries
    /\ stdout = <<>>
    /\ events = <<>>
    /\ handled = Pending
    /\ ops = <<>>
    /\ answer = [op |-> "none"]
    /\ CallInit
    /\ ViewInit
    /\ FileInit
    /\ ThreadInit
    /\ SyncInit
    /\ pyproj = TRUE

\* lines 21-86
Handle ==
    /\ handled = Pending
    /\ LET end == handle(options, table, registry)
       IN  /\ table' = end.table
           /\ stdout' = end.stdout
           /\ events' = end.events
           /\ handled' = IF end.raised THEN Raised ELSE Return(None)
    /\ UNCHANGED <<options, registry, OutsideCommand>>

NextCommand == Handle

SpecCommand == InitCommand /\ [][NextCommand]_vars

(***************************************************************************)
(* LumenProviderSync.sync_circuit_costs                                    *)
(* (src/circuithelper/providers/lumen.py).  provider_data is the dict the  *)
(* carrier's API answered; a charge is a JSON number, held in thousandths  *)
(* of the currency unit, or a string.  A stored nrc or mrc is an Optional  *)
(* number of hundredths (DecimalField with decimal_places=2).  cost_rows   *)
(* is the CircuitCost table; circuit is a OneToOneField, so update_or_     *)
(* create finds at most one row.                                           *)
(***************************************************************************)
LumenCircuits == {"C1", "C2"}

Number(mills) == [kind |-> "number", mills |-> mills]
Text(t) == [kind |-> "str", text |-> t]

\* a dict with this key, or without it when the value is left out
Entry(key, o) == IF o = None THEN <<>> ELSE key :> o[1]

Billings ==
    {Entry("non_recurring_charge", n) @@ Entry("monthly_recurring_charge", m)
        @@ Entry("currency", a[1]) @@ Entry("account_number", a[2]) :
        n \in {None, Some(Number(0)), Some(Number(500000)), Some(Text("n/a"))},
        m \in {None, Some(Number(150000))},
        a \in {<<None, None>>, <<Some("EUR"), Some("ACC-123")>>}}

ProviderData == {<<>>} \cup {[billing |-> b] : b \in Billings}

\* Python truth of an Optional charge: None, 0, 0.0 and '' are false
charge_truthy(o) ==
    /\ o # None
    /\ IF o[1].kind = "number" THEN o[1].mills # 0 ELSE o[1].text # ""

\* Decimal(str(v)) as the column keeps it: hundredths, or InvalidOperation
\* for a string that is not a number
Decimal(v) ==
    IF v.kind = "number" THEN Return(Some(RoundDiv(v.mills, 10))) ELSE Raised

\* a variant of lines 89-90 that converts every value that is not None
decimal_unless_none(o) == IF o # None THEN Decimal(o[1]) ELSE Return(None)

\* lines 89-90: Decimal(str(x)) if x else None
decimal_if_truthy(o) == IF charge_truthy(o) THEN Decimal(o[1]) ELSE Return(None)

\* dict.get(key, default)
dict_get_default(d, key, default) == IF key \in DOMAIN d THEN d[key] ELSE default

CostOf(rows, circuit) == SelectSeq(rows, LAMBDA r : r.circuit = circuit)

\* lines 86-95: CircuitCost.objects.update_or_create(circuit=circuit, defaults=...)
update_or_create(rows, circuit, defaults) ==
    IF CostOf(rows, circuit) # <<>>
    THEN [i \in DOMAIN rows |->
            IF rows[i].circuit = circuit THEN [circuit |-> circuit] @@ defaults ELSE rows[i]]
    ELSE Append(rows, [circuit |-> circuit] @@ defaults)

\* lines 72-101; db_ok is whether the database takes the write.  The result
\* is [rows, result]: the table afterwards and the value returned.
LumenSyncCircuitCosts(rows, circuit, provider_data, db_ok) ==
    LET billing == dict_get_default(provider_data, "billing", <<>>)
        nrc == decimal_if_truthy(dict_get(billing, "non_recurring_charge"))
        mrc == decimal_if_truthy(dict_get(billing, "monthly_recurring_charge"))
        currency == dict_get_default(billing, "currency", "USD")
        account == dict_get_default(billing, "account_number", "")
    IN  IF nrc = Raised \/ mrc = Raised \/ ~db_ok
        THEN [rows |-> rows, result |-> FALSE]
        ELSE [rows |-> update_or_create(rows, circuit,
                          [nrc |-> nrc.value, mrc |-> mrc.value, currency |-> currency,
                           billing_account |-> account]),
              result |-> TRUE]

\* a variant of the fetch whose failure is passed on as None
get_circuit_details_or_none(fetched) == fetched

\* lines 59-70: the dict the API answered, {} when the request failed
get_circuit_details(fetched) == IF fetched = None THEN Some(<<>>) ELSE fetched

\* base.py lines 157-161 run by a LumenProviderSync: the details are fetched
\* and handed to sync_circuit_costs
sync_costs_of(rows, circuit, fetched) ==
    LET details == get_circuit_details(fetched)
    IN  IF details = None THEN [rows |-> rows, result |-> FALSE]
        ELSE LumenSyncCircuitCosts(rows, circuit, details[1], TRUE)

InitCosts ==
    /\ CostInit
    /\ TicketInit
    /\ MapInit
    /\ CallInit
    /\ ViewInit
    /\ FileInit
    /\ ThreadInit
    /\ SyncInit
    /\ RegistryInit
    /\ CommandInit
    /\ pyproj = TRUE

\* lumen.py lines 72-101, called with the provider's data
SyncCircuitCosts(circuit, provider_data, db_ok) ==
    /\ LET r == LumenSyncCircuitCosts(cost_rows, circuit, provider_data, db_ok)
       IN  /\ cost_rows' = r.rows
           /\ cost_call' = [op |-> "sync_circuit_costs", circuit |-> circuit,
                            fetched |-> Some(provider_data), result |-> r.result]
    /\ UNCHANGED OutsideCosts

\* base.py lines 157-161 inside sync_all, for a circuit that was matched
SyncAllCircuit(circuit, fetched) ==
    /\ LET r == sync_costs_of(cost_rows, circuit, fetched)
       IN  /\ cost_rows' = r.rows
           /\ cost_call' = [op |-> "sync_all", circuit |-> circuit,
                            fetched |-> fetched, result |-> r.result]
    /\ UNCHANGED OutsideCosts

NextCosts ==
    \/ \E c \in LumenCircuits, d \in ProviderData, ok \in BOOLEAN : SyncCircuitCosts(c, d, ok)
    \/ \E c \in LumenCircuits, f \in {None} \cup {Some(d) : d \in ProviderData} :
          SyncAllCircuit(c, f)

SpecCosts == InitCosts /\ [][NextCosts]_vars

(***************************************************************************)
(* LumenProviderSync.sync_circuit_tickets and its two mappings             *)
(* (src/circuithelper/providers/lumen.py).  ticket_rows is the             *)
(* CircuitTicket table, keyed by ticket_number (unique=True).              *)
(***************************************************************************)
TICKET_STATUS_CHOICES == {"open", "in_progress", "pending", "resolved", "closed"}

TICKET_PRIORITY_CHOICES == {"low", "medium", "high", "critical"}

\* the statuses and priorities a carrier sends
StatusStrings ==
    {"new", "open", "working", "pending_customer", "resolved", "closed",
     "New", "WORKING", "Pending_Customer", "on_hold", ""}

PriorityStrings == {"p1", "p2", "p3", "p4", "P1", "P4", "urgent", ""}

\* str.lower() on the strings above
lower(str) ==
    CASE str = "New" -> "new"
      [] str = "WORKING" -> "working"
      [] str = "Pending_Customer" -> "pending_customer"
      [] str = "P1" -> "p1"
      [] str = "P4" -> "p4"
      [] OTHER -> str

\* lines 137-144
status_map ==
    [new |-> "open", open |-> "open", working |-> "in_progress",
     pending_customer |-> "pending", resolved |-> "resolved", closed |-> "closed"]

\* lines 151-156
priority_map == [p1 |-> "critical", p2 |-> "high", p3 |-> "medium", p4 |-> "low"]

\* a variant that looks the status up as it was sent
map_ticket_status_as_sent(provider_status) ==
    IF provider_status = None THEN Raised
    ELSE Return(dict_get_default(status_map, provider_status[1], "open"))

\* lines 133-145; provider_status is what ticket_data.get("status") gave,
\* and None has no lower()
map_ticket_status(provider_status) ==
    IF provider_status = None THEN Raised
    ELSE Return(dict_get_default(status_map, lower(provider_status[1]), "open"))

\* lines 147-157
map_ticket_priority(provider_priority) ==
    IF provider_priority = None THEN Raised
    ELSE Return(dict_get_default(priority_map, lower(provider_priority[1]), "medium"))

TicketNumbers == {"T1", "T2"}

\* the ticket dicts of an answer: every status with one priority and every
\* priority with one status; None is a key that is left out
TicketData ==
    {Entry("ticket_number", Some(n)) @@ Entry("status", t[1]) @@ Entry("priority", t[2]) :
        n \in TicketNumbers,
        t \in ({None} \cup {Some(x) : x \in StatusStrings}) \X {Some("p2")}
              \cup {Some("closed")} \X ({None} \cup {Some(x) : x \in PriorityStrings})}

TicketAnswers ==
    {<<>>, [tickets |-> <<>>]} \cup {[tickets |-> <<t>>] : t \in TicketData}

TicketOf(rows, number) == SelectSeq(rows, LAMBDA r : r.ticket_number = number)

\* lines 115-125: CircuitTicket.objects.update_or_create(ticket_number=..., defaults=...)
ticket_update_or_create(rows, number, defaults) ==
    IF TicketOf(rows, number) # <<>>
    THEN [i \in DOMAIN rows |->
            IF rows[i].ticket_number = number
            THEN [ticket_number |-> number] @@ defaults ELSE rows[i]]
    ELSE Append(rows, [ticket_number |-> number] @@ defaults)

\* lines 113-125 from the i-th ticket on: [rows, raised]
RECURSIVE tickets_loop(_, _, _, _)
tickets_loop(tickets, i, circuit, acc) ==
    IF acc.raised \/ i > Len(tickets) THEN acc
    ELSE LET ticket_data == tickets[i]
             status == map_ticket_status(dict_get(ticket_data, "status"))
             priority == IF status = Raised THEN Raised
                         ELSE map_ticket_priority(dict_get(ticket_data, "priority"))
         IN  IF status = Raised \/ priority = Raised
             THEN [acc EXCEPT !.raised = TRUE]
             ELSE tickets_loop(tickets, i + 1, circuit,
                    [acc EXCEPT !.rows =
                        ticket_update_or_create(@, ticket_data.ticket_number,
                            [circuit |-> circuit, status |-> status.value,
                             priority |-> priority.value])])

\* lines 103-131: [rows, result]
LumenSyncCircuitTickets(rows, circuit, provider_data) ==
    LET tickets == dict_get_default(provider_data, "tickets", <<>>)
        end == tickets_loop(tickets, 1, circuit, [rows |-> rows, raised |-> FALSE])
    IN  [rows |-> end.rows, result |-> ~end.raised]

InitTickets ==
    /\ CostInit
    /\ TicketInit
    /\ MapInit
    /\ CallInit
    /\ ViewInit
    /\ FileInit
    /\ ThreadInit
    /\ SyncInit
    /\ RegistryInit
    /\ CommandInit
    /\ pyproj = TRUE

\* lines 103-131
SyncCircuitTickets(circuit, provider_data) ==
    /\ LET r == LumenSyncCircuitTickets(ticket_rows, circuit, provider_data)
       IN  /\ ticket_rows' = r.rows
           /\ ticket_call' = [op |-> "sync_circuit_tickets", circuit |-> circuit,
                              provider_data |-> provider_data, result |-> r.result]
    /\ UNCHANGED OutsideTickets

NextTickets ==
    \E c \in LumenCircuits, d \in TicketAnswers : SyncCircuitTickets(c, d)

SpecTickets == InitTickets /\ [][NextTickets]_vars

(***************************************************************************)
(* The views that show the map of a stored path                            *)
(* (src/circuithelper/views.py, CircuitPathView.get_extra_context and      *)
(* circuit_detail_tab).  A stored center is a Decimal in millionths of a   *)
(* degree; map_html is None or Some("html"), what generate_folium_map      *)
(* returned (the map, or a paragraph saying that it could not be drawn).   *)
(***************************************************************************)
StoredCenters == {-73985700, 0, 1333333, 37774900}

StoredCollections ==
    {None, Some(FeatureCollection(<<>>)), Some(FeatureCollection(<<Feature(GLine)>>))}

PathRecords ==
    [geojson_data : StoredCollections,
     map_center_lat : {None} \cup {Some(v) : v \in StoredCenters},
     map_center_lon : {None} \cup {Some(v) : v \in StoredCenters}]

\* utils.py lines 175-226: always a string
generate_folium_map(geojson_data, center) == Some("html")

\* a variant of the condition that asks whether the values are stored
map_if_not_none(path) ==
    IF path.geojson_data # None /\ path.map_center_lat # None /\ path.map_center_lon # None
    THEN generate_folium_map(path.geojson_data[1],
                             <<path.map_center_lat[1], path.map_center_lon[1]>>)
    ELSE None

\* lines 90-96 and 173-175: the map when the three values are true in Python
map_if_truthy(path) ==
    IF dict_truthy(path.geojson_data) /\ number_truthy(path.map_center_lat)
          /\ number_truthy(path.map_center_lon)
    THEN generate_folium_map(path.geojson_data[1],
                             <<path.map_center_lat[1], path.map_center_lon[1]>>)
    ELSE None

InitMap ==
    /\ path_record \in {None} \cup {Some(r) : r \in PathRecords}
    /\ context = Pending
    /\ CostInit
    /\ TicketInit
    /\ CallInit
    /\ ViewInit
    /\ FileInit
    /\ ThreadInit
    /\ SyncInit
    /\ RegistryInit
    /\ CommandInit
    /\ pyproj = TRUE

\* lines 86-98; the view is reached only for a CircuitPath that exists
GetExtraContext ==
    /\ context = Pending
    /\ path_record # None
    /\ context' = [view |-> "CircuitPathView", map_html |-> map_if_truthy(path_record[1])]
    /\ UNCHANGED <<path_record, OutsideMap>>

\* lines 155-189
CircuitDetailTab ==
    /\ context = Pending
    /\ context' = [view |-> "circuit_detail_tab",
                   map_html |-> IF path_record = None THEN None
                                ELSE map_if_truthy(path_record[1])]
    /\ UNCHANGED <<path_record, OutsideMap>>

NextMap == GetExtraContext \/ CircuitDetailTab

SpecMap == InitMap /\ [][NextMap]_vars

(***************************************************************************)
(* Properties of the pipeline called once (SpecParse)                      *)
(***************************************************************************)
Returned(fn) == call.fn = fn /\ ret # Pending /\ ret # Raised

\* every node of a forest, each folder followed by what it holds
RECURSIVE Preorder(_)
Preorder(fs) ==
    IF fs = <<>> THEN <<>>
    ELSE <<Head(fs)>>
         \o (IF "features" \in DOMAIN Head(fs) THEN Preorder(Head(fs).features) ELSE <<>>)
         \o Preorder(Tail(fs))

CarriesGeometry(node) == "geometry" \in DOMAIN node /\ node.geometry # None

ConversionFails(node) == CarriesGeometry(node) /\ shape(node.geometry[1]) = Raised

\* the nodes held by some folder or document, in document order
Nested(fs) ==
    Flatten([i \in DOMAIN fs |->
                IF "features" \in DOMAIN fs[i] THEN Preorder(fs[i].features) ELSE <<>>])

NoKmlName(kmz) == \A i \in DOMAIN kmz.entries : ~endswith(kmz.entries[i].name, ".kml")

\* C1: parse_kmz_file returns (None, None), and does not raise, for every
\* input that is not a zip archive and for every archive none of whose
\* entry names ends in '.kml'.
C1_ContainerErrorsAreSoft ==
    (call.fn = "parse_kmz_file" /\ ret # Pending)
        => ((~call.arg.zip \/ NoKmlName(call.arg)) => ret = Return(<<None, None>>))

C1_Witness ==
    /\ Returned("parse_kmz_file")
    /\ call.arg.zip
    /\ Len(call.arg.entries) = 2
    /\ NoKmlName(call.arg)
    /\ \E i \in DOMAIN call.arg.entries : call.arg.entries[i].name = <<"doc", ".kml", ".bak">>

ErrorOccurs(kml_data) ==
    \/ kml_data.bytes # "xml"
    \/ \E node \in Range(Nested(kml_data.features)) : ConversionFails(node)

\* C2: if the markup does not parse (a zero-byte document included) or the
\* conversion of any placemark the walk reaches fails, parse_kml_data
\* returns (None, None), never the features gathered before the error;
\* so does parse_kmz_file when the entry it reads is such a document.
C2_AllOrNothing ==
    /\ (call.fn = "parse_kml_data" /\ ret # Pending)
          => (ErrorOccurs(call.arg) => ret = Return(<<None, None>>))
    /\ (call.fn = "parse_kmz_file" /\ ret # Pending /\ call.arg.zip)
          => \A i \in DOMAIN call.arg.entries :
                (/\ select_kml(call.arg) = Some(call.arg.entries[i].name)
                 /\ \A j \in DOMAIN call.arg.entries :
                       call.arg.entries[j].name = call.arg.entries[i].name => j <= i
                 /\ ErrorOccurs(call.arg.entries[i].data))
                    => ret = Return(<<None, None>>)

\* a placemark was converted and appended before a later one failed
C2_Witness ==
    /\ Returned("parse_kml_data")
    /\ call.arg.bytes = "xml"
    /\ LET nodes == Nested(call.arg.features)
       IN  \E i, j \in DOMAIN nodes :
              /\ i < j
              /\ CarriesGeometry(nodes[i]) /\ ~ConversionFails(nodes[i])
              /\ ConversionFails(nodes[j])
              /\ \A k \in 1..(j - 1) : ~ConversionFails(nodes[k])

GotCollection == Returned("parse_kml_data") /\ ret.value[1] # None

GeometryPlacemarks(fs) == SelectSeq(Preorder(fs), CarriesGeometry)

\* C3 as claimed: the feature list holds one Feature for each placemark
\* with a geometry, at every depth, in document order, and nothing else.
C3_OneFeaturePerPlacemark ==
    GotCollection =>
        LET features == ret.value[1][1].features
            pms == GeometryPlacemarks(call.arg.features)
        IN  /\ Len(features) = Len(pms)
            /\ \A i \in DOMAIN pms :
                  /\ i \in DOMAIN features
                  /\ shape(pms[i].geometry[1]) # Raised
                  /\ features[i].geometry = mapping(shape(pms[i].geometry[1]).value)

\* C4 as claimed: a top-level entry that carries a geometry gets a Feature
\* and its coordinates enter the pool, as for a nested entry.
C4_TopLevelGeometryIsConverted ==
    GotCollection =>
        \A i \in DOMAIN call.arg.features :
            LET entry == call.arg.features[i]
            IN  (CarriesGeometry(entry) /\ ~ConversionFails(entry)) =>
                    /\ \E k \in DOMAIN ret.value[1][1].features :
                          ret.value[1][1].features[k].geometry =
                              mapping(shape(entry.geometry[1]).value)
                    /\ ret.value[2] # None

FirstKml(kmz) ==
    CHOOSE i \in DOMAIN kmz.entries :
        /\ endswith(kmz.entries[i].name, ".kml")
        /\ \A j \in 1..(i - 1) : ~endswith(kmz.entries[j].name, ".kml")

\* C7 as claimed: of several entries whose names end in '.kml' the first
\* in directory order is the one parsed.
C7_FirstKmlEntryIsParsed ==
    (Returned("parse_kmz_file") /\ call.arg.zip /\ ~NoKmlName(call.arg))
        => ret = parse_kml_data(call.arg.entries[FirstKml(call.arg)].data)

\* what C8 says of each kind, written over the geometry's own parts
RECURSIVE ClaimedCoordinates(_)
ClaimedCoordinates(g) ==
    CASE g.geom_type = "Point" -> <<<<g.coords[1][1], g.coords[1][2]>>>>
      [] g.geom_type \in {"LineString", "LinearRing"} -> [i \in 1..Len(g.coords) |-> g.coords[i]]
      [] g.geom_type = "Polygon" -> [i \in 1..Len(g.exterior.coords) |-> g.exterior.coords[i]]
      [] OTHER -> Flatten([i \in DOMAIN g.geoms |-> ClaimedCoordinates(g.geoms[i])])

\* C8: extract_coordinates returns a Point's one (x, y) pair, a
\* LineString's or LinearRing's vertices in order, a Polygon's exterior
\* ring only, closing vertex included, and for a Multi* geometry or a
\* GeometryCollection the concatenation over its children in order.
C8_ExtractionPolicy ==
    Returned("extract_coordinates") =>
        /\ ret.value = ClaimedCoordinates(call.arg)
        /\ call.arg.geom_type = "Point" => Len(ret.value) = 1 /\ Len(ret.value[1]) = 2
        /\ call.arg.geom_type = "Polygon" =>
              /\ ret.value[1] = ret.value[Len(ret.value)]
              /\ Len(ret.value) = Len(call.arg.exterior.coords)

C8_Witness ==
    /\ Returned("extract_coordinates")
    /\ call.arg.geom_type = "GeometryCollection"
    /\ \E i \in DOMAIN call.arg.geoms :
          /\ call.arg.geoms[i].geom_type = "Polygon"
          /\ call.arg.geoms[i].interiors # <<>>
    /\ \E i \in DOMAIN call.arg.geoms : call.arg.geoms[i].geom_type = "GeometryCollection"

\* the coordinate pairs of the features of a returned collection
PoolOf(features) ==
    Flatten([i \in DOMAIN features |->
                extract_coordinates(shape(features[i].geometry).value)])

\* C9: the center is (mean latitude, mean longitude), in that order, the
\* unweighted mean over the coordinates of all features taken as one
\* pool; it is None exactly when the pool is empty.
C9_CenterIsMeanOfPool ==
    GotCollection =>
        LET pool == PoolOf(ret.value[1][1].features)
            center == ret.value[2]
            lats == SumSeq([i \in DOMAIN pool |-> pool[i][2]])
            lons == SumSeq([i \in DOMAIN pool |-> pool[i][1]])
        IN  /\ center = None <=> pool = <<>>
            /\ center # None =>
                  /\ Len(center[1]) = 2
                  /\ center[1][1][2] > 0 /\ center[1][2][2] > 0
                  /\ center[1][1][1] * Len(pool) = lats * center[1][1][2]
                  /\ center[1][2][1] * Len(pool) = lons * center[1][2][2]

\* two features of different sizes, whose mean latitude and longitude differ
C9_Witness ==
    /\ GotCollection
    /\ Len(ret.value[1][1].features) = 2
    /\ ret.value[1][1].features[1].geometry.type = "Point"
    /\ ret.value[1][1].features[2].geometry.type = "Polygon"
    /\ ret.value[2] # None
    /\ ret.value[2][1][1] # ret.value[2][1][2]

\* C10 as claimed: 'name' and 'description' of every Feature are strings,
\* the empty string where the placemark has none, never null.
C10_PropertiesAreStrings ==
    GotCollection =>
        \A i \in DOMAIN ret.value[1][1].features :
            /\ ret.value[1][1].features[i].properties.name # None
            /\ ret.value[1][1].features[i].properties.description # None


(***************************************************************************)
(* Properties of the upload handler (SpecUpload)                           *)
(***************************************************************************)
Uploaded == outcome = "saved" /\ request.FILES # None

UploadParsed == parse_kmz_file(request.FILES[1]).value

\* C5 as claimed: after an upload whose parsing fails the record is saved
\* with no path geometry, no center point and no distance, whatever it
\* held before.
C5_FailedUploadLeavesNoPathData ==
    (Uploaded /\ (UploadParsed[1] = None \/ UploadParsed[2] = None))
        => /\ instance.geojson_data = None
           /\ instance.map_center_lat = None
           /\ instance.map_center_lon = None
           /\ instance.path_distance_km = None

\* C6 as claimed: after an upload that parses to a collection and a center
\* the record holds that collection, that center, and as distance
\* calculate_path_distance of the stored collection, 0 included.
C6_StoredValuesComeFromUpload ==
    (Uploaded /\ UploadParsed[1] # None /\ UploadParsed[2] # None)
        => /\ instance.geojson_data = UploadParsed[1]
           /\ instance.map_center_lat = Some(to_decimal6(UploadParsed[2][1][1]))
           /\ instance.map_center_lon = Some(to_decimal6(UploadParsed[2][1][2]))
           /\ instance.path_distance_km = calculate_path_distance(instance.geojson_data[1])

(***************************************************************************)
(* Properties of calculate_path_distance called once (SpecParse)           *)
(***************************************************************************)
FeaturesOf(geojson_data) ==
    IF "features" \in DOMAIN geojson_data THEN geojson_data.features ELSE <<>>

GeomTypeOf(feature) ==
    IF "geometry" \in DOMAIN feature /\ shape(feature.geometry) # Raised
    THEN Some(shape(feature.geometry).value.geom_type)
    ELSE None

NonLinear(feature) == GeomTypeOf(feature) \in {Some("Point"), Some("Polygon")}

IsLinear(feature) == GeomTypeOf(feature) \in {Some("LineString"), Some("MultiLineString")}

WithoutNonLinear(features) == SelectSeq(features, LAMBDA f : ~NonLinear(f))

\* C11: only LineString and MultiLineString features add length: a
\* collection of Point and Polygon features only, or of no features, gives
\* 0 or None, never a positive value, and the result for any collection is
\* the result for the collection without its Point and Polygon features.
C11_OnlyLinesAreMeasured ==
    (call.fn = "calculate_path_distance" /\ ret # Pending)
        => LET features == FeaturesOf(call.arg)
           IN  /\ (\A i \in DOMAIN features : NonLinear(features[i]))
                     => ret.value \in {None, Some(0)}
               /\ ret.value =
                     calculate_path_distance(FeatureCollection(WithoutNonLinear(features)))

\* a positive distance for a collection that holds a polygon, a point and a line
C11_Witness ==
    /\ Returned("calculate_path_distance")
    /\ LET features == FeaturesOf(call.arg)
       IN  /\ \E i \in DOMAIN features : GeomTypeOf(features[i]) = Some("Polygon")
           /\ \E i \in DOMAIN features : GeomTypeOf(features[i]) = Some("Point")
           /\ \E i \in DOMAIN features : IsLinear(features[i])
    /\ ret.value # None
    /\ ret.value[1] > 0

FeatureFails(feature) ==
    \/ "geometry" \notin DOMAIN feature
    \/ shape(feature.geometry) = Raised

SingleMeridianLine(geojson_data) ==
    LET features == FeaturesOf(geojson_data)
    IN  /\ Len(features) = 1
        /\ GeomTypeOf(features[1]) = Some("LineString")
        /\ \A i \in DOMAIN features[1].geometry.coordinates :
              features[1].geometry.coordinates[i][1] = features[1].geometry.coordinates[1][1]

\* the length on the ground, in metres, between the end points of a line
\* along a meridian: MetresPerDegree for each degree of latitude
GroundLength(coordinates) ==
    MetresPerDegree * Abs(coordinates[Len(coordinates)][2] - coordinates[1][2])

\* C13: for one LineString of collinear points the result is the ground
\* length between its end points in kilometres, to within a tenth of that
\* length.
C13_DistanceIsGroundLength ==
    (/\ call.fn = "calculate_path_distance" /\ ret # Pending
     /\ pyproj
     /\ SingleMeridianLine(call.arg))
        => /\ ret.value # None
           /\ LET ground == GroundLength(FeaturesOf(call.arg)[1].geometry.coordinates)
              IN  10 * Abs(10 * ret.value[1] - ground) <= ground

(***************************************************************************)
(* Properties of repeated calls on one file object (SpecReread)            *)
(***************************************************************************)
\* the archive in the file object is one parse_kmz_file gets a collection from
ValidArchive == parse_kmz_file(file_object.content).value[1] # None

C15_GeometryStoredWithoutDistance ==
    (/\ Uploaded
     /\ UploadParsed[1] # None /\ UploadParsed[2] # None
     /\ calculate_path_distance(UploadParsed[1][1]) = None)
        => /\ instance.geojson_data = UploadParsed[1]
           /\ instance.map_center_lat = Some(to_decimal6(UploadParsed[2][1][1]))
           /\ instance.map_center_lon = Some(to_decimal6(UploadParsed[2][1][2]))
           /\ instance.path_distance_km = request.POST.path_distance_km

\* an archive with a line was uploaded where pyproj cannot be imported, over
\* a form that submitted a distance
C15_Witness ==
    /\ Uploaded
    /\ UploadParsed[1] # None /\ UploadParsed[2] # None
    /\ \E i \in DOMAIN UploadParsed[1][1].features : IsLinear(UploadParsed[1][1].features[i])
    /\ calculate_path_distance(UploadParsed[1][1]) = None
    /\ instance.geojson_data # None
    /\ request.POST.path_distance_km # None

(***************************************************************************)
(* Properties of invocations running at the same time (SpecThreads)        *)
(***************************************************************************)
IsPrefix(s, t) == Len(s) <= Len(t) /\ s = SubSeq(t, 1, Len(s))

\* C16: however the invocations interleave, each returns what
\* parse_kml_data returns for its input alone, and the feature list and
\* the coordinate pool it is building hold only entries a run alone on its
\* input puts there, in that order.
C16_InvocationsAreIsolated ==
    \A p \in DOMAIN invocations :
        /\ invocations[p].pc = "done"
              => invocations[p].result = parse_kml_data(invocations[p].kml_data)
        /\ invocations[p].pc = "walk"
              => LET alone == kml_walk(invocations[p].kml_data)
                 IN  /\ IsPrefix(heap[list_of(p)].features_list, alone.features_list)
                     /\ IsPrefix(heap[list_of(p)].coords_list, alone.coords_list)

\* two invocations on different documents are both part way through, each
\* with features in its list, and one has already returned a collection
\* while the other has more to visit
C16_Witness ==
    \E p, q \in DOMAIN invocations :
        /\ p # q
        /\ invocations[p].kml_data # invocations[q].kml_data
        /\ invocations[p].pc = "done"
        /\ invocations[p].result.value[1] # None
        /\ invocations[p].result.value[1][1].features # <<>>
        /\ invocations[q].pc = "walk"
        /\ invocations[q].todo # <<>>
        /\ heap[list_of(q)].features_list # <<>>

(***************************************************************************)
(* Properties of sync_all (SpecSync)                                       *)
(***************************************************************************)
SyncReturned == sync_result # Pending /\ sync_result # Raised

CountOf(seq, Test(_)) == Cardinality({i \in DOMAIN seq : Test(seq[i])})

IsCircuitError(e) == e \in {"Circuit not found", "Error syncing circuit"}

Unmatched(circuit) == match_circuit(circuit.data) = None

\* C17: whenever sync_all returns after authenticate returned True and
\* get_circuits returned a list, total is the length of the list, success +
\* failed = total, errors holds one entry for each failed circuit (so it is
\* not empty when failed > 0), and every circuit that matches no NetBox
\* circuit is among the failed.
C17_StatsAreConsistent ==
    (SyncReturned /\ provider.authenticate = "True" /\ provider.circuits # None)
        => LET stats == sync_result.value
               circuits == provider.circuits[1]
           IN  /\ stats.total = Len(circuits)
               /\ stats.success + stats.failed = stats.total
               /\ CountOf(stats.errors, IsCircuitError) = stats.failed
               /\ stats.failed > 0 => stats.errors # <<>>
               /\ stats.failed >= CountOf(circuits, Unmatched)
               /\ stats.success <= Len(circuits) - CountOf(circuits, Unmatched)

\* a run over a circuit that synchronises and one that NetBox does not have
C17_Witness ==
    /\ SyncReturned
    /\ provider.authenticate = "True"
    /\ provider.circuits # None
    /\ \E i \in DOMAIN provider.circuits[1] : Unmatched(provider.circuits[1][i])
    /\ sync_result.value.success = 1
    /\ sync_result.value.failed = 1

(***************************************************************************)
(* Properties of the registry (SpecRegistry)                               *)
(***************************************************************************)
\* the class the calls so far leave under key k: that of the last register
\* of k if no unregister of k came after it, else None
RECURSIVE Latest(_, _)
Latest(calls, k) ==
    IF calls = <<>> THEN None
    ELSE LET c == calls[Len(calls)]
             before == SubSeq(calls, 1, Len(calls) - 1)
         IN  IF c.key = k /\ c.op = "register" THEN Some(c.class)
             ELSE IF c.key = k /\ c.op = "unregister" THEN None
             ELSE Latest(before, k)

ButLast(calls) == SubSeq(calls, 1, Len(calls) - 1)

\* C18: after any sequence of calls, get(k) returns the class last
\* registered under k if k was not unregistered since and None otherwise;
\* get_all returns exactly the keys so registered, each once, with those
\* classes; no call raises, an unregister of a key that is not registered
\* included, and such an unregister leaves every key as it was.
C18_RegistryIsAMap ==
    /\ \A k \in ProviderTypes : registry_get(registry, k) = Latest(ops, k)
    /\ answer.op # "none" => answer.result # Raised
    /\ answer.op = "get" => answer.result.value = Latest(ButLast(ops), ops[Len(ops)].key)
    /\ answer.op = "get_all"
          => LET d == answer.result.value
             IN  /\ {d[i].key : i \in DOMAIN d} = {k \in ProviderTypes : Latest(ops, k) # None}
                 /\ \A i, j \in DOMAIN d : d[i].key = d[j].key => i = j
                 /\ \A i \in DOMAIN d : Some(d[i].value) = Latest(ops, d[i].key)
    /\ (answer.op = "unregister" /\ Latest(ButLast(ops), ops[Len(ops)].key) = None)
          => \A k \in ProviderTypes : registry_get(registry, k) = Latest(ButLast(ops), k)

\* a key registered twice with different classes, then another key that
\* was never registered is unregistered, then get_all is called
C18_Witness ==
    /\ Len(ops) = 4
    /\ ops[1].op = "register" /\ ops[2].op = "register"
    /\ ops[1].key = ops[2].key /\ ops[1].class # ops[2].class
    /\ ops[3].op = "unregister" /\ ops[3].key # ops[1].key
    /\ answer.op = "get_all"
    /\ Len(answer.result.value) = 1
    /\ answer.result.value[1].value = ops[2].class

(***************************************************************************)
(* Properties of the sync_provider command (SpecCommand)                   *)
(***************************************************************************)
RowOf(pk) == CHOOSE c \in Range(table) : c.pk = pk

\* the rows the command is asked for: enabled, and the one --provider names
\* when it names one
Wanted(c) == c.sync_enabled /\ (options.provider = None \/ options.provider = Some(c.pk))

Registered(c) == registry_get(registry, c.provider_type) # None

LinesAbout(pk) == SelectSeq(stdout, LAMBDA l : l.pk = pk)

WantedRows == SelectSeq(table, Wanted)

PksOf(rows) == [i \in DOMAIN rows |-> rows[i].pk]

\* the rows the lines with one of the given texts are about, line by line
PksOfLines(texts) == PksOf(SelectSeq(stdout, LAMBDA l : l.text \in texts))

SyncRaises(c) == sync_all(c.remote, NewConfig) = Raised

\* C20: for an enabled row whose type is not in the registry the command
\* writes 'not found in registry' once and makes no call on a provider
\* class; when it returns it has gone through every enabled row in order,
\* and has written one 'Sync complete' (with --test, one connection result)
\* for each enabled row with a registered type and for no other; it ends
\* by an exception only when sync_all raised for a registered row.
C20_MissingTypeIsSkipped ==
    handled # Pending
        => /\ \A i \in DOMAIN table :
                 (Wanted(table[i]) /\ ~Registered(table[i]))
                     => /\ \A j \in DOMAIN events : events[j].pk # table[i].pk
                        /\ \A j \in DOMAIN stdout :
                              stdout[j].pk = table[i].pk
                                  => stdout[j].text \in {"Processing provider",
                                                         "not found in registry"}
           /\ PksOfLines({"not found in registry"})
                 = PksOf(SelectSeq(SelectSeq(table, LAMBDA c : ~Registered(c)),
                                   LAMBDA c : \E j \in DOMAIN stdout : stdout[j].pk = c.pk))
           /\ handled = Return(None)
                 => /\ PksOfLines({"Processing provider"}) = PksOf(WantedRows)
                    /\ PksOfLines(IF options.test
                                   THEN {"Connection successful", "Connection failed"}
                                   ELSE {"Sync complete"})
                          = PksOf(SelectSeq(WantedRows, Registered))
           /\ handled = Raised
                 => /\ ~options.test
                    /\ \E i \in DOMAIN table :
                          Wanted(table[i]) /\ Registered(table[i]) /\ SyncRaises(table[i])

\* the first enabled row has a type that is not registered, the second is
\* synchronised after it
C20_Witness ==
    /\ handled = Return(None)
    /\ ~options.test
    /\ Len(table) = 2
    /\ Wanted(table[1]) /\ ~Registered(table[1])
    /\ Wanted(table[2]) /\ Registered(table[2])
    /\ PksOfLines({"not found in registry"}) = <<1>>
    /\ PksOfLines({"Sync complete"}) = <<2>>
    /\ table[2].last_sync = "now"


(***************************************************************************)
(* C21: with --test the command only tests connections                     *)
(***************************************************************************)
CallsOf(name) == SelectSeq(events, LAMBDA e : e.call = name)

Instantiated == PksOf(CallsOf("__init__"))

\* no row of the table carries the result of a sync_all
NothingSynchronized ==
    \A j \in DOMAIN table :
        table[j].last_sync = "never" /\ table[j].sync_status = [status |-> "none"]

\* C21: once the command has run, with --test every instantiated provider
\* had test_connection called, sync_all was called on none and no row of the
\* table changed; without --test every instantiated provider had sync_all
\* called and test_connection was called on none.
C21_TestOnlyTestsConnections ==
    handled # Pending =>
        IF options.test
        THEN /\ CallsOf("sync_all") = <<>>
             /\ PksOf(CallsOf("test_connection")) = Instantiated
             /\ NothingSynchronized
        ELSE /\ CallsOf("test_connection") = <<>>
             /\ PksOf(CallsOf("sync_all")) = Instantiated

\* a --test run over a registered enabled row whose remote would have
\* synchronized a circuit
C21_Witness ==
    /\ handled = Return(None)
    /\ options.test
    /\ \E j \in DOMAIN table :
          /\ Wanted(table[j]) /\ Registered(table[j])
          /\ table[j].remote = RemoteOk
          /\ table[j].pk \in {e.pk : e \in Range(CallsOf("test_connection"))}

(***************************************************************************)
(* Properties of sync_all over a stored configuration (SpecSync)           *)
(***************************************************************************)
SyncRan == sync_result # Pending

\* the stored last_sync is the time of this run
LastSyncAdvanced == config.last_sync = "now"

\* C23: last_sync is the time of the last successful sync: a run of sync_all
\* advances it only when authentication succeeded, the run was not aborted
\* by an exception and no circuit failed to sync; any other run leaves it as
\* it was.
C23_LastSyncOnlyAfterSuccess ==
    (SyncRan /\ LastSyncAdvanced)
        => /\ provider.authenticate = "True"
           /\ provider.circuits # None
           /\ provider.save_fails = 0
           /\ SyncReturned
           /\ sync_result.value.failed = 0

\* an exception is raised inside the inner try for this circuit
CircuitRaises(circuit) ==
    ~Unmatched(circuit) /\ ("id" \notin DOMAIN circuit.data \/ circuit.raises)

CircuitSyncs(circuit) == ~Unmatched(circuit) /\ ~CircuitRaises(circuit)

\* the same provider with circuits for which nothing raises
WithoutCircuitFailures(p) ==
    [p EXCEPT !.circuits =
        Some([i \in DOMAIN p.circuits[1] |->
                [data |-> [id |-> "1", cid |-> "C1"], raises |-> FALSE,
                 costs |-> p.circuits[1][i].costs]])]

\* C26: in a run that reaches the loop, every circuit for which an exception
\* is raised is counted in failed with an "Error syncing circuit" entry in
\* errors, every other circuit of the list, before or after it, is still
\* processed, and the exception does not leave sync_all: sync_all returns the
\* statistics whenever config.save() works, and it raises only when it would
\* also have raised with no failing circuit.
C26_CircuitFailureIsIsolated ==
    (SyncRan /\ provider.authenticate = "True" /\ provider.circuits # None)
        => LET circuits == provider.circuits[1]
           IN  /\ provider.save_fails = 0 => SyncReturned
               /\ (sync_result = Raised)
                     <=> (sync_all(WithoutCircuitFailures(provider), config) = Raised)
               /\ SyncReturned =>
                     LET stats == sync_result.value
                     IN  /\ CountOf(stats.errors, LAMBDA e : e = "Error syncing circuit")
                               = CountOf(circuits, CircuitRaises)
                         /\ stats.failed = CountOf(circuits, CircuitRaises)
                                             + CountOf(circuits, Unmatched)
                         /\ stats.success = CountOf(circuits, CircuitSyncs)

\* a run in which the first circuit raises and the second one synchronises
C26_Witness ==
    /\ SyncReturned
    /\ provider.authenticate = "True"
    /\ provider.circuits # None
    /\ Len(provider.circuits[1]) = 2
    /\ CircuitRaises(provider.circuits[1][1])
    /\ provider.circuits[1][1].raises
    /\ CircuitSyncs(provider.circuits[1][2])
    /\ sync_result.value.failed = 1
    /\ sync_result.value.success = 1

\* sync_circuit_costs was called for this circuit and returned True
CostsSynced(circuit) == CircuitSyncs(circuit) /\ sync_circuit_costs(circuit)

\* C27: when sync_all returns, success counts only circuits whose
\* sync_circuit_costs returned True: a circuit for which it returned False is
\* not counted as a success.
C27_SuccessMeansCostsSynced ==
    (SyncReturned /\ provider.authenticate = "True" /\ provider.circuits # None)
        => sync_result.value.success <= CountOf(provider.circuits[1], CostsSynced)

\* the run reached line 178 and its save() worked
RunCompleted ==
    provider.authenticate = "True" /\ provider.circuits # None /\ provider.save_fails = 0

\* C29: after every call of sync_all that returns, the stored sync_status is
\* the outcome of that call: "Success: s/t" with the s and t of the returned
\* statistics when the run completed, "Failed: ..." when it did not,
\* authentication failure included; it is never the status an earlier run
\* has left.
C29_StatusDescribesThisRun ==
    SyncReturned =>
        IF RunCompleted
        THEN config.sync_status = [status |-> "Success",
                                   success |-> sync_result.value.success,
                                   total |-> sync_result.value.total]
        ELSE config.sync_status = [status |-> "Failed"]

(***************************************************************************)
(* C24: a document without features is not a failed parse (SpecParse)      *)
(***************************************************************************)
NoGeometryAnywhere(kml_data) ==
    \A node \in Range(Preorder(kml_data.features)) : ~CarriesGeometry(node)

\* C24: parse_kml_data does not raise; for well-formed markup none of whose
\* placemarks carries a geometry it returns a FeatureCollection with an empty
\* feature list and the center None; the FeatureCollection it returns is
\* None only when the markup did not parse or a conversion failed.
C24_EmptyIsNotFailure ==
    (call.fn = "parse_kml_data" /\ ret # Pending)
        => /\ ret # Raised
           /\ (call.arg.bytes = "xml" /\ NoGeometryAnywhere(call.arg))
                 => ret = Return(<<Some(FeatureCollection(<<>>)), None>>)
           /\ ret.value[1] = None => ErrorOccurs(call.arg)

\* a document whose folder holds placemarks, none with a geometry
C24_Witness ==
    /\ Returned("parse_kml_data")
    /\ call.arg.bytes = "xml"
    /\ NoGeometryAnywhere(call.arg)
    /\ \E node \in Range(Nested(call.arg.features)) : "geometry" \in DOMAIN node
    /\ ret.value[1] = Some(FeatureCollection(<<>>))
    /\ ret.value[2] = None

(***************************************************************************)
(* Properties of the Lumen cost synchronisation (SpecCosts)                *)
(***************************************************************************)
\* the billing dict the last call was given
SuppliedBilling == dict_get_default(cost_call.fetched[1], "billing", <<>>)

IsNumber(o) == o # None /\ o[1].kind = "number"

\* the stored charge is the number the provider supplied, to the cent
ChargeStored(stored, supplied) ==
    IsNumber(supplied) => stored = Some(RoundDiv(supplied[1].mills, 10))

\* C22: sync_circuit_costs is an upsert keyed by circuit: after any sequence
\* of calls every circuit has at most one CircuitCost row, and after a call
\* that returned True the row of its circuit holds the nrc and mrc of every
\* numeric charge the provider supplied in that call, and the currency and
\* account number it supplied.
C22_CostsAreUpserted ==
    /\ \A c \in LumenCircuits : Len(CostOf(cost_rows, c)) <= 1
    /\ (cost_call.op = "sync_circuit_costs" /\ cost_call.result)
          => /\ Len(CostOf(cost_rows, cost_call.circuit)) = 1
             /\ LET row == CostOf(cost_rows, cost_call.circuit)[1]
                    billing == SuppliedBilling
                IN  /\ ChargeStored(row.nrc, dict_get(billing, "non_recurring_charge"))
                    /\ ChargeStored(row.mrc, dict_get(billing, "monthly_recurring_charge"))
                    /\ "currency" \in DOMAIN billing => row.currency = billing.currency
                    /\ "account_number" \in DOMAIN billing
                          => row.billing_account = billing.account_number

\* C28: when get_circuit_details fails for a circuit during sync_all, the
\* CircuitCost row already stored for that circuit is left as it was.
C28_FailedFetchKeepsCosts ==
    [][(/\ cost_call'.op = "sync_all"
        /\ cost_call'.fetched = None
        /\ CostOf(cost_rows, cost_call'.circuit) # <<>>)
          => CostOf(cost_rows', cost_call'.circuit) = CostOf(cost_rows, cost_call'.circuit)]_vars

(***************************************************************************)
(* Properties of the Lumen ticket synchronisation (SpecTickets)            *)
(***************************************************************************)
\* the same word whatever the case of its letters
SameWord(str, word) == lower(str) = word

StatusFor(str) ==
    CASE SameWord(str, "new") \/ SameWord(str, "open") -> "open"
      [] SameWord(str, "working") -> "in_progress"
      [] SameWord(str, "pending_customer") -> "pending"
      [] SameWord(str, "resolved") -> "resolved"
      [] SameWord(str, "closed") -> "closed"
      [] OTHER -> "open"

PriorityFor(str) ==
    CASE SameWord(str, "p1") -> "critical"
      [] SameWord(str, "p2") -> "high"
      [] SameWord(str, "p3") -> "medium"
      [] SameWord(str, "p4") -> "low"
      [] OTHER -> "medium"

\* the tickets of the answer the last call was given
SentTickets == dict_get_default(ticket_call.provider_data, "tickets", <<>>)

\* C25: the two mappings are total over strings: for every status string
\* _map_ticket_status returns open for new and open, in_progress for working,
\* pending for pending_customer, resolved for resolved, closed for closed,
\* whatever the case of the letters, and open for any other string;
\* _map_ticket_priority returns critical, high, medium, low for p1..p4 and
\* medium for any other string; a ticket sent with both strings is stored
\* with these values, and every stored status and priority is one of the
\* model's choices.
C25_TicketMappingsAreTotal ==
    /\ \A str \in StatusStrings :
          map_ticket_status(Some(str)) = Return(StatusFor(str))
    /\ \A str \in PriorityStrings :
          map_ticket_priority(Some(str)) = Return(PriorityFor(str))
    /\ \A i \in DOMAIN ticket_rows :
          /\ ticket_rows[i].status \in TICKET_STATUS_CHOICES
          /\ ticket_rows[i].priority \in TICKET_PRIORITY_CHOICES
    /\ ticket_call.op = "sync_circuit_tickets"
          => \A i \in DOMAIN SentTickets :
                LET sent == SentTickets[i]
                IN  ("status" \in DOMAIN sent /\ "priority" \in DOMAIN sent)
                       => /\ ticket_call.result
                          /\ \E j \in DOMAIN ticket_rows :
                                /\ ticket_rows[j].ticket_number = sent.ticket_number
                                /\ ticket_rows[j].status = StatusFor(sent.status)
                                /\ ticket_rows[j].priority = PriorityFor(sent.priority)

\* a ticket sent as WORKING was stored as in_progress
C25_Witness ==
    /\ ticket_call.op = "sync_circuit_tickets"
    /\ ticket_call.result
    /\ SentTickets # <<>>
    /\ SentTickets[1].status = "WORKING"
    /\ \E j \in DOMAIN ticket_rows :
          /\ ticket_rows[j].ticket_number = SentTickets[1].ticket_number
          /\ ticket_rows[j].status = "in_progress"

(***************************************************************************)
(* Properties of the map views (SpecMap)                                   *)
(***************************************************************************)
\* C30: both views produce map_html for every CircuitPath row whose
\* geojson_data, map_center_lat and map_center_lon are all stored, a center
\* latitude or longitude of exactly 0 included.
C30_StoredPathHasAMap ==
    (/\ context # Pending
     /\ path_record # None
     /\ path_record[1].geojson_data # None
     /\ path_record[1].map_center_lat # None
     /\ path_record[1].map_center_lon # None)
        => context.map_html # None
=============================================================================
